---- MODULE Spec2Model ----
(***************************************************************************)
(* Katax service manager: the named-resource registry (database()/socket() *)
(* with their pending-creation maps), shutdown (Katax.shutdown and         *)
(* LifecycleService.shutdown) and the health check (HealthService.check).  *)
(*                                                                         *)
(* JavaScript runs every handler to completion between two awaits, so one  *)
(* action is the synchronous code from one suspension point to the next.   *)
(***************************************************************************)
EXTENDS Integers, Sequences, FiniteSets, TLC

\* ------------------------------------------------------------------ bounds
\* Suspended database()/socket() calls that differ in what they asked for or
\* in what they wait for. (Two suspended calls that agree in both resume to
\* the same result and change nothing, so they are kept as one.)
MaxCallers == 2
\* Handles and init promises that are referenced at the same time. An object
\* that nothing references any more cannot be told from a new one, so its id is
\* given to the next construction.
MaxLive == 2
\* SCAN replies of one clear() call.
MaxPages == 3
\* Runs of one job's task that are counted, by its firings and by init().
MaxRuns == 2
\* close() calls that one service gets between two init().
MaxCloses == 3

Ids == 1..MaxLive

\* ------------------------------------------------------------------ inputs
Names == {"a", "b"}
\* config.name as a caller can pass it: a name, or the empty string.
NameInputs == Names \cup {""}
\* DatabaseConfig.type, two of the four values (one SQL, and redis).
Types == {"postgresql", "redis"}
\* DatabaseConfig.required: absent, true or false.
Required == {"undefined", "true", "false"}
\* Messages of the errors the drivers raise while connecting.
Causes == {"ECONNREFUSED"}

VARIABLES
    initialized,        \* Katax._initialized
    databases,          \* Katax._databases: name -> handle id, 0 when absent
    sockets,            \* Katax._sockets
    pendingDatabases,   \* Katax._pendingDatabases: name -> promise id, 0 when absent
    pendingSockets,     \* Katax._pendingSockets
    promises,           \* the promises createDatabase/createSocket returned, by id
    calls,              \* the suspended database()/socket() calls
    returned,           \* the call that returned last: its config, branch and result
    hooks,              \* lifecycle hooks were passed to init()
    registry,           \* Katax._registry is set
    jobs,               \* CronService.jobs: the names of the registered jobs
    timers,             \* the jobs that hold a scheduled task
    shutdown,           \* the shutdown() call: where it is suspended, and its locals
    health,             \* the healthCheck() call: where it is suspended, and its result
    cache,              \* the CacheService.clear() call: its locals and the commands it sent
    registryService,    \* a RegistryService: its config, registered, heartbeatTimer
    registryCalls,      \* its register(), sendHeartbeat() and unregister() calls in flight
    cronService,        \* a CronService: initialized, and its jobs in insertion order
    cronInit,           \* its init() call, while it awaits a job's task
    cronCall,           \* the call of the CronService that has just ended, and how
    cronTasks,          \* per job name: the scheduled firings and the runs of its task
    services,           \* a DatabaseService and a WebSocketService: initialized, pool / io
    closeCalls,         \* their close() calls: in flight, and what they did
    cacheInstances,     \* Katax._cacheInstances: the names that have a CacheService
    lifecycle,          \* the init() or shutdown() call of an instance with a registry
    presence,           \* the presence heartbeat of startHeartbeat(): its closure and its timer
    signals,            \* the shutdown() calls of the signal handlers, and what they closed and ran
    inits               \* the init() calls in flight on one instance, and what they constructed

mapVars == <<initialized, databases, sockets, pendingDatabases, pendingSockets>>
regVars == <<mapVars, promises>>
cronVars == <<jobs, timers>>
\* What database() and socket() neither read nor write.
\* The services that are modelled on their own, each in its own specification.
registryVars == <<registryService, registryCalls>>
cronServiceVars == <<cronService, cronInit, cronCall, cronTasks>>
releaseVars == <<services, closeCalls>>
\* The utilities and the calls that are looked at in a specification of their own.
extras == <<presence, signals, inits>>
\* With them goes the map of cache instances, which only cache() writes.
standalone == <<cache, registryVars, cronServiceVars, releaseVars, cacheInstances,
                lifecycle, extras>>
lifeVars == <<hooks, registry, cronVars, shutdown, health>>
outsideRegistry == <<lifeVars, standalone>>
\* The Katax instance.
kataxVars == <<regVars, calls, returned, lifeVars>>
vars == <<kataxVars, standalone>>
\* What the actions of one service leave alone.
exceptCache == <<kataxVars, registryVars, cronServiceVars, releaseVars, cacheInstances,
                 lifecycle, extras>>
exceptRegistry == <<kataxVars, cache, cronServiceVars, releaseVars, cacheInstances,
                    lifecycle, extras>>
exceptCron == <<kataxVars, cache, registryVars, releaseVars, cacheInstances, lifecycle, extras>>
exceptRelease == <<kataxVars, cache, registryVars, cronServiceVars, cacheInstances,
                   lifecycle, extras>>
\* What init() and shutdown() of an instance without resources leave alone.
exceptLifecycle == <<databases, sockets, pendingDatabases, pendingSockets, promises,
                     calls, returned, shutdown, health, cache, cronServiceVars,
                     releaseVars, cacheInstances, extras>>
exceptPresence == <<kataxVars, cache, registryVars, cronServiceVars, releaseVars,
                    cacheInstances, lifecycle, signals, inits>>
\* What overlapping shutdown() calls of an instance without jobs and without a
\* registry leave alone.
exceptSignals == <<pendingDatabases, pendingSockets, calls, returned, hooks, registry,
                   cronVars, shutdown, health, cache, registryVars, cronServiceVars,
                   releaseVars, cacheInstances, lifecycle, presence, inits>>
\* What overlapping init() calls leave alone.
exceptInits == <<databases, sockets, pendingDatabases, pendingSockets, promises, calls,
                 returned, lifeVars, cache, registryVars, cronServiceVars, releaseVars,
                 cacheInstances, lifecycle, presence, signals>>
\* What the accessors of the instance neither read nor write.
exceptAccess == <<hooks, registry, shutdown, health, cache, registryVars,
                  cronServiceVars, releaseVars, lifecycle, extras>>

\* ------------------------------------------------------------------ values
\* A caller's result: a handle (the object identity is the id of the
\* construction that made it), null, or a raised Error with its message.
NoResult == [tag |-> "none", id |-> 0, message |-> <<>>]
Handle(id) == [tag |-> "handle", id |-> id, message |-> <<>>]
Null == [tag |-> "null", id |-> 0, message |-> <<>>]
Raised(message) == [tag |-> "error", id |-> 0, message |-> message]

NoConfig == [kind |-> "none", name |-> "", type |-> "none", required |-> "undefined"]

\* The configs the application passes. The name check comes before any other
\* field is read, so one config with an empty name stands for all of them.
DatabaseConfigs ==
    [kind : {"database"}, name : Names, type : Types, required : Required]
        \cup {[kind |-> "database", name |-> "", type |-> "postgresql",
                required |-> "undefined"]}
WebSocketConfigs ==
    [kind : {"socket"}, name : NameInputs, type : {"none"}, required : {"undefined"}]

\* What a suspended database()/socket() call keeps of its config: the code
\* reads config.name and config.required when it resumes. config.type is read
\* by DatabaseService before the first suspension and lives on in the handle.
Closure(config) == [config EXCEPT !.type = "none"]

\* The record of a call that has returned: its config, the branch of
\* database()/socket() it took, the promise it waited for and its result.
NoReturn == [config |-> NoConfig, path |-> "none", awaited |-> 0, result |-> NoResult]

\* An init promise and the service object it resolves to: open is the
\* object's own state, set by its init() and reset by its close().
NoPromise == [kind |-> "none", name |-> "", type |-> "none", state |-> "unused",
              message |-> <<>>, open |-> FALSE]

\* Error messages are built as the code builds them, by concatenation.
NotInitializedMessage ==
    <<"Katax not initialized. Call katax.init() before using any services.\n",
      "Example: await katax.init(); // or katax.init().then(() => {...})">>
DatabaseNameRequired == <<"Database name is required">>
WebSocketNameRequired == <<"WebSocket name is required">>
\* DatabaseService.init / WebSocketService.init wrap the driver's error.
DatabaseInitFailure(cause) == <<"Failed to initialize database: ", cause>>
WebSocketInitFailure(cause) == <<"Failed to initialize WebSocket: ", cause>>
\* Katax.database / Katax.socket wrap the rejection of the init promise.
DatabaseInitError(name, errorMessage) ==
    <<"Database '", name, "' initialization failed: ">> \o errorMessage
WebSocketInitError(name, errorMessage) ==
    <<"WebSocket '", name, "' initialization failed: ">> \o errorMessage

Kinds == {"database", "socket"}

\* The acquisitions that run beside a shutdown: required databases of one
\* type, and sockets of one name.
ShutdownDatabaseConfigs ==
    {config \in DatabaseConfigs :
        config.name # "" /\ config.type = "postgresql" /\ config.required = "undefined"}
ShutdownSocketConfigs == {config \in WebSocketConfigs : config.name = "a"}

\* The resources of a health check: required databases of either type, and
\* sockets.
HealthConfigs ==
    {config \in DatabaseConfigs : config.name # "" /\ config.required = "undefined"}
        \cup {config \in WebSocketConfigs : config.name # ""}

\* The resources of an instance that is shut down and initialized again: a
\* redis database and a socket of one name.
LifecycleConfigs ==
    {config \in DatabaseConfigs \cup WebSocketConfigs :
        config.name = "a" /\ config.type \in {"redis", "none"}
            /\ config.required = "undefined"}

\* KataxInitConfig: whether it carries lifecycle hooks and a registry.
InitConfigs == [hooks : BOOLEAN, registry : BOOLEAN]
NoInitConfig == [hooks |-> FALSE, registry |-> FALSE]

\* Jobs the application schedules.
JobNames == {"job"}

\* shutdown() when no call is running: pc is the await it is suspended at,
\* closing the closes of the current fan-out that have not settled, failures
\* the rejected results the loop has not handled yet, resume the loop that
\* awaits onError, errors the `errors` array (its service fields). snapshot,
\* attempted, failed, ran and stopped record what the call did: the resources
\* that were registered when it was called, the closes it started, the number
\* of closes that failed, how often it invoked each of the two shutdown hooks
\* and whether it has stopped the cron jobs.
NoShutdown ==
    [pc |-> "idle", closing |-> {}, failures |-> 0, resume |-> "none", errors |-> <<>>,
     snapshot |-> {}, attempted |-> {}, failed |-> 0,
     ran |-> [beforeShutdown |-> 0, afterShutdown |-> 0], stopped |-> FALSE]

\* HealthCheckResult: status, and per registered name the outcome of its probe
\* ("absent" for a name the result has no key for).
NoResultRecord ==
    [status |-> "healthy", databases |-> [n \in Names |-> "absent"],
     sockets |-> [n \in Names |-> "absent"], cron |-> TRUE]
\* healthCheck() when no call is running: pc is where it is suspended, current
\* the database whose probe it awaits, result the record it builds. rejected
\* records the databases whose probe threw.
NoHealth == [pc |-> "idle", current |-> "", result |-> NoResultRecord, rejected |-> {}]

\* CacheService.clear() when no call is running: pc is the command it awaits,
\* env and pattern what it was called with, cursor and deleted its locals, keys
\* the page it is deleting, result what it returned or the message it raised.
\* commands records the backend commands it sent and pages the SCAN replies
\* it got, in order.
NoClear ==
    [pc |-> "idle", env |-> "undefined", pattern |-> "undefined", cursor |-> "0",
     keys |-> <<>>, deleted |-> 0, result |-> <<>>, commands |-> <<>>, pages |-> <<>>]

\* The three calls a RegistryService makes to its registry.
RegistryActions == {"register", "heartbeat", "unregister"}
\* Before `new RegistryService(config)`. url and handler tell whether the
\* config has them, callbacks which callbacks the handler has, retryAttempts
\* and retryBaseDelayMs are <<>> when the config leaves them out and <<n>>
\* otherwise. live counts the interval timers that setInterval has made and
\* clearInterval has not cleared.
NoRegistryService ==
    [constructed |-> FALSE, registered |-> FALSE, heartbeatTimer |-> "null", live |-> 0,
     config |-> [url |-> FALSE, handler |-> FALSE, callbacks |-> {},
                 retryAttempts |-> <<>>, retryBaseDelayMs |-> <<>>]]
\* No call of an action in flight: pc is what the call awaits, attempt the
\* loop variable of fetchWithRetry, outcomes the replies to its fetches so
\* far, delays the durations of its sleeps, result the error a call raised
\* or, in a catch block, logged.
NoCall ==
    [pc |-> "idle", attempt |-> 0, outcomes |-> <<>>, delays |-> <<>>, result |-> <<>>]

\* The names of the jobs of a CronService, and what evaluating an `enabled`
\* function gives; "none" stands for a predicate that was not evaluated.
CronNames == {"j1", "j2"}
PredicateOutcomes == {"true", "false", "throws"}
NotEvaluated == [name \in CronNames |-> "none"]
NoJobConfig == [name |-> "", schedule |-> "", enabled |-> "undefined", runOnInit |-> FALSE]
\* `new CronService()`: no job, not initialized. A job state is its config,
\* its task ("null" or "ScheduledTask"), running, and live, the number of
\* scheduled tasks started for it and not stopped.
NoCronService == [initialized |-> FALSE, jobs |-> <<>>]
\* No init() in flight: pc is "task" while it awaits the task of jobs[at];
\* evaluated is what the predicates gave in its first loop.
NoCronInit == [pc |-> "idle", at |-> 0, evaluated |-> NotEvaluated]
\* No call has just ended: op is the method, job its argument, outcome
\* "returned" or "raised", evaluated what the predicates it evaluated gave,
\* listing what getJobs() returned.
NoCronCall ==
    [op |-> "none", job |-> NoJobConfig, outcome |-> "", evaluated |-> NotEvaluated,
     listing |-> <<>>]

\* The task of a job that has not run: firing tells that a scheduled firing
\* awaits the task, predicate what the job's enable predicate was worth when
\* that firing began, runs the firings that invoked the task, failed that one
\* of them threw or rejected, unhandled that such an error left the firing,
\* onInit the runs by init(), orphans the scheduled tasks that were started
\* for the name, never stopped, and belong to no job any more.
NoCronTask ==
    [firing |-> FALSE, predicate |-> "none", runs |-> 0, failed |-> FALSE,
     unhandled |-> FALSE, onInit |-> 0, orphans |-> 0]

\* What a settled promise gives to whoever awaits it directly.
Settled(p) == promises[p].state \in {"fulfilled", "rejected"}
PromiseOutcome(p) ==
    IF promises[p].state = "fulfilled" THEN Handle(p) ELSE Raised(promises[p].message)

\* The id of the next construction: one that nothing holds.
FreeIds == {p \in Ids : promises[p].state = "unused"}
NextId == CHOOSE p \in FreeIds : \A q \in FreeIds : p <= q

\* An init promise or the handle it resolved to is referenced by a map entry, by
\* a suspended call or by a result the application still looks at.
Referenced(p) ==
    \/ \E n \in Names : p \in {databases[n], sockets[n], pendingDatabases[n],
                                 pendingSockets[n]}
    \/ \E call \in calls : p = call.promise
    \/ p \in {returned.awaited, returned.result.id}

\* A returned call is looked at before anything else happens: `returned` only
\* records what the last step gave its caller, and Return, which forgets it,
\* changes nothing that another step reads.
Ready ==
    /\ returned = NoReturn
    /\ shutdown.pc \notin {"returned", "raised"}
    /\ health.pc \notin {"returned", "raised"}

\* Objects that the step leaves unreferenced are forgotten. It is the last
\* conjunct of an action: it reads the maps and the calls as the step leaves them.
Collect == promises' = [p \in Ids |-> IF Referenced(p)' THEN promises[p] ELSE NoPromise]

\* A DatabaseService or WebSocketService after its constructor: pool is the
\* pool of the database (the io server of the socket), connecting says that
\* init() awaits the adapter.
NoService == [initialized |-> FALSE, pool |-> "undefined", connecting |-> FALSE]
\* The close() calls of a service since it was opened: how many were made,
\* how many await the driver, how often the driver's close was invoked, and
\* how the call that ended last ended ("none", "returned", "raised").
NoCloseCalls == [calls |-> 0, closing |-> 0, driverCloses |-> 0, last |-> "none"]

\* The init() or shutdown() call of an instance whose config has a registry:
\* pc is the await it is suspended at, config the KataxInitConfig of the last
\* init(), caught the failure its catch block got ("none", "constructor",
\* "register"). onError lists the contexts the onError hook was invoked with,
\* invoked counts the handler's callbacks invoked since the last init().
NoLifecycle ==
    [pc |-> "idle", config |-> [hooks |-> FALSE, registry |-> <<>>], caught |-> "none",
     onError |-> <<>>, invoked |-> [action \in RegistryActions |-> 0]]

\* The closure of startHeartbeat(): `stopped`, `timer` and the socket it was
\* given; the SET commands it has started and those still awaited, the
\* events it has emitted, the calls of stop(), and what reached a caller.
NoPresence ==
    [started |-> FALSE, stopped |-> FALSE, timer |-> "null", socket |-> FALSE,
     writes |-> 0, awaited |-> 0, emits |-> 0, stops |-> 0, raised |-> "none"]

\* The shutdown() calls in flight, by caller: where each is suspended and the
\* closes it awaits; per resource the calls of the driver's close and whether
\* one has succeeded; the runs of the hooks; the calls made.
NoSignalCall == [pc |-> "idle", closing |-> {}]
NoSignals ==
    [calls |-> [c \in 1..MaxCallers |-> NoSignalCall],
     driverCloses |-> [r \in {"database", "socket"} \X Names |-> 0],
     closed |-> {},
     ran |-> [beforeShutdown |-> 0, afterShutdown |-> 0],
     made |-> 0]

\* The init() calls in flight, by caller: where each is suspended, whether its
\* config has a registry, and the services the instance held when it
\* returned. The services are told apart by the number of their construction:
\* services is the one the instance holds (0: null), and constructed counts
\* the constructions; registries and registers count `new RegistryService`
\* and its register() calls.
NoInitCall == [pc |-> "idle", registry |-> FALSE, seen |-> 0]
NoInits ==
    [calls |-> [c \in 1..MaxCallers |-> NoInitCall],
     constructed |-> 0, services |-> 0, registries |-> 0, registers |-> 0, made |-> 0]

\* ------------------------------------------------------------------ init
Init ==
    /\ initialized = FALSE
    /\ databases = [n \in Names |-> 0]
    /\ sockets = [n \in Names |-> 0]
    /\ pendingDatabases = [n \in Names |-> 0]
    /\ pendingSockets = [n \in Names |-> 0]
    /\ promises = [p \in Ids |-> NoPromise]
    /\ calls = {}
    /\ returned = NoReturn
    /\ hooks = FALSE
    /\ registry = FALSE
    /\ jobs = {}
    /\ timers = {}
    /\ shutdown = NoShutdown
    /\ health = NoHealth
    /\ cache = NoClear
    /\ registryService = NoRegistryService
    /\ registryCalls = [action \in RegistryActions |-> NoCall]
    /\ cronService = NoCronService
    /\ cronInit = NoCronInit
    /\ cronCall = NoCronCall
    /\ cronTasks = [name \in CronNames |-> NoCronTask]
    /\ services = [kind \in Kinds |-> NoService]
    /\ closeCalls = [kind \in Kinds |-> NoCloseCalls]
    /\ cacheInstances = {}
    /\ lifecycle = NoLifecycle
    /\ presence = NoPresence
    /\ signals = NoSignals
    /\ inits = NoInits

\* Katax.init(config): a second call on an initialized instance returns at
\* once. It makes a new CronService and, with config.registry, a
\* RegistryService.
KataxInit(config) ==
    /\ Ready
    /\ ~initialized
    /\ initialized' = TRUE
    /\ hooks' = config.hooks
    /\ registry' = config.registry
    /\ jobs' = {}
    /\ timers' = {}
    /\ UNCHANGED <<databases, sockets, pendingDatabases, pendingSockets, promises,
                   calls, returned, shutdown, health, standalone>>

\* ------------------------------------------------------------------ database()
\* this._databases.has(name)
\* (fault: a registry that never finds the name resolved)
HasDatabaseNever(name) == FALSE
HasDatabase(name) == databases[name] # 0
\* this._pendingDatabases.has(name)
\* (fault: a registry that never finds a construction in flight)
HasPendingDatabaseNever(name) == FALSE
HasPendingDatabase(name) == pendingDatabases[name] # 0
\* this._pendingDatabases.set(name, initPromise)
\* (fault: the init promise is not stored)
SetPendingSkipped(pending, name, p) == pending
SetPending(pending, name, p) == [pending EXCEPT ![name] = p]
\* this._pendingDatabases.delete(name) in the finally block
\* (fault: a finally block that leaves the entry)
DeletePendingSkipped(pending, name) == pending
DeletePending(pending, name) == [pending EXCEPT ![name] = 0]

\* A call returns r (or raises it) without having waited.
Finish(config, branch, r) ==
    /\ returned' = [config |-> config, path |-> branch, awaited |-> 0, result |-> r]
    /\ UNCHANGED calls

\* A suspended call resumes and returns r (or raises it).
FinishCall(call, branch, r) ==
    /\ returned' = [config |-> call.config, path |-> branch, awaited |-> call.promise,
                    result |-> r]
    /\ calls' = calls \ {call}

\* A call suspends at an await on promise p.
Suspend(config, at, p) ==
    LET call == [config |-> Closure(config), at |-> at, promise |-> p]
    IN
    /\ Cardinality(calls \cup {call}) <= MaxCallers
    /\ calls' = calls \cup {call}
    /\ UNCHANGED returned

\* Katax.database(config) up to its first suspension.
Database(config) ==
    LET name == config.name
    IN
    /\ Ready
    /\ UNCHANGED outsideRegistry
    /\ IF ~initialized THEN
           /\ Finish(config, "uninitialized", Raised(NotInitializedMessage))
           /\ UNCHANGED mapVars
           /\ Collect
       ELSE IF name = "" THEN
           /\ Finish(config, "noname", Raised(DatabaseNameRequired))
           /\ UNCHANGED mapVars
           /\ Collect
       ELSE IF HasDatabase(name) THEN
           /\ Finish(config, "existing", Handle(databases[name]))
           /\ UNCHANGED mapVars
           /\ Collect
       ELSE IF HasPendingDatabase(name) THEN
           /\ Suspend(config, "awaitPending", pendingDatabases[name])
           /\ UNCHANGED regVars
       ELSE
           /\ FreeIds # {}
           /\ promises' = [promises EXCEPT ![NextId] =
                  [kind |-> "database", name |-> name, type |-> config.type,
                   state |-> "pending", message |-> <<>>, open |-> FALSE]]
           /\ pendingDatabases' = SetPending(pendingDatabases, name, NextId)
           /\ Suspend(config, "awaitInit", NextId)
           /\ UNCHANGED <<initialized, databases, sockets, pendingSockets>>

\* createDatabase: db.init() settles, and with it the init promise.
CreateDatabaseSettles(p, ok, cause) ==
    /\ Ready
    /\ UNCHANGED outsideRegistry
    /\ promises[p].kind = "database"
    /\ promises[p].state = "pending"
    /\ promises' = [promises EXCEPT ![p] =
           IF ok THEN [@ EXCEPT !.state = "fulfilled", !.open = TRUE]
           ELSE [@ EXCEPT !.state = "rejected", !.message = DatabaseInitFailure(cause)]]
    /\ UNCHANGED <<mapVars, calls, returned>>

\* Katax.database after `await initPromise`: the try, catch and finally blocks.
DatabaseResume ==
    \E call \in calls :
    LET p == call.promise
        name == call.config.name
    IN
    /\ Ready
    /\ UNCHANGED outsideRegistry
    /\ call.at = "awaitInit"
    /\ call.config.kind = "database"
    /\ Settled(p)
    /\ IF promises[p].state = "fulfilled" THEN
           /\ databases' = [databases EXCEPT ![name] = p]
           /\ FinishCall(call, "created", Handle(p))
       ELSE IF call.config.required = "false" THEN
           /\ databases' = databases
           /\ FinishCall(call, "created", Null)
       ELSE
           /\ databases' = databases
           /\ FinishCall(call, "created",
                         Raised(DatabaseInitError(name, promises[p].message)))
    /\ pendingDatabases' = DeletePending(pendingDatabases, name)
    /\ UNCHANGED <<initialized, sockets, pendingSockets>>
    /\ Collect

\* Katax.database returned the pending promise itself: the caller gets whatever
\* that promise settles to. The initiator awaited the promise first, so its
\* continuation, which deletes the pending entry, has run before a joiner's.
DatabaseJoined ==
    \E call \in calls :
    /\ Ready
    /\ UNCHANGED outsideRegistry
    /\ call.at = "awaitPending"
    /\ call.config.kind = "database"
    /\ Settled(call.promise)
    /\ pendingDatabases[call.config.name] # call.promise
    /\ FinishCall(call, "joined", PromiseOutcome(call.promise))
    /\ UNCHANGED mapVars
    /\ Collect

\* ------------------------------------------------------------------ socket()
\* this._sockets.has(name), this._pendingSockets.has(name)
HasSocket(name) == sockets[name] # 0
HasPendingSocket(name) == pendingSockets[name] # 0

\* Katax.socket(config) up to its first suspension.
Socket(config) ==
    LET name == config.name
    IN
    /\ Ready
    /\ UNCHANGED outsideRegistry
    /\ IF ~initialized THEN
           /\ Finish(config, "uninitialized", Raised(NotInitializedMessage))
           /\ UNCHANGED mapVars
           /\ Collect
       ELSE IF name = "" THEN
           /\ Finish(config, "noname", Raised(WebSocketNameRequired))
           /\ UNCHANGED mapVars
           /\ Collect
       ELSE IF HasSocket(name) THEN
           /\ Finish(config, "existing", Handle(sockets[name]))
           /\ UNCHANGED mapVars
           /\ Collect
       ELSE IF HasPendingSocket(name) THEN
           /\ Suspend(config, "awaitPending", pendingSockets[name])
           /\ UNCHANGED regVars
       ELSE
           /\ FreeIds # {}
           /\ promises' = [promises EXCEPT ![NextId] =
                  [kind |-> "socket", name |-> name, type |-> "none",
                   state |-> "pending", message |-> <<>>, open |-> FALSE]]
           /\ pendingSockets' = SetPending(pendingSockets, name, NextId)
           /\ Suspend(config, "awaitInit", NextId)
           /\ UNCHANGED <<initialized, databases, sockets, pendingDatabases>>

\* createSocket: socket.init() settles, and with it the init promise.
CreateSocketSettles(p, ok, cause) ==
    /\ Ready
    /\ UNCHANGED outsideRegistry
    /\ promises[p].kind = "socket"
    /\ promises[p].state = "pending"
    /\ promises' = [promises EXCEPT ![p] =
           IF ok THEN [@ EXCEPT !.state = "fulfilled", !.open = TRUE]
           ELSE [@ EXCEPT !.state = "rejected", !.message = WebSocketInitFailure(cause)]]
    /\ UNCHANGED <<mapVars, calls, returned>>

\* Katax.socket after `await initPromise`: the try, catch and finally blocks.
SocketResume ==
    \E call \in calls :
    LET p == call.promise
        name == call.config.name
    IN
    /\ Ready
    /\ UNCHANGED outsideRegistry
    /\ call.at = "awaitInit"
    /\ call.config.kind = "socket"
    /\ Settled(p)
    /\ IF promises[p].state = "fulfilled" THEN
           /\ sockets' = [sockets EXCEPT ![name] = p]
           /\ FinishCall(call, "created", Handle(p))
       ELSE
           /\ sockets' = sockets
           /\ FinishCall(call, "created",
                         Raised(WebSocketInitError(name, promises[p].message)))
    /\ pendingSockets' = DeletePending(pendingSockets, name)
    /\ UNCHANGED <<initialized, databases, pendingDatabases>>
    /\ Collect

\* Katax.socket returned the pending promise itself.
SocketJoined ==
    \E call \in calls :
    /\ Ready
    /\ UNCHANGED outsideRegistry
    /\ call.at = "awaitPending"
    /\ call.config.kind = "socket"
    /\ Settled(call.promise)
    /\ pendingSockets[call.config.name] # call.promise
    /\ FinishCall(call, "joined", PromiseOutcome(call.promise))
    /\ UNCHANGED mapVars
    /\ Collect

\* The returned call has been looked at.
Return ==
    /\ returned # NoReturn
    /\ returned' = NoReturn
    /\ UNCHANGED <<mapVars, calls, outsideRegistry>>
    /\ Collect

\* ------------------------------------------------------------------ cron()
\* Katax.cron(job) -> CronService.addJob: a name that is registered already is
\* refused; an accepted job (enabled, the service is initialized) is started.
Cron(job) ==
    /\ Ready
    /\ initialized
    /\ job \notin jobs
    /\ jobs' = jobs \cup {job}
    /\ timers' = timers \cup {job}
    /\ UNCHANGED <<regVars, calls, returned, hooks, registry, shutdown, health,
                   standalone>>

\* CronService.stopAll(): every task is stopped and dropped.
StopAll(running) == {}

\* ------------------------------------------------------------------ shutdown()
\* The acquisitions that run beside a shutdown: one call per name at a time,
\* and the server accepts the connection.
AcquireDatabase(config) == ~HasPendingDatabase(config.name) /\ Database(config)
AcquireSocket(config) == ~HasPendingSocket(config.name) /\ Socket(config)
DatabaseCreated(p) == \E cause \in Causes : CreateDatabaseSettles(p, TRUE, cause)
SocketCreated(p) == \E cause \in Causes : CreateSocketSettles(p, TRUE, cause)

\* The resources in the resolved maps, as <<kind, name>>.
Registered(dbs, socks) ==
    {<<"database", n>> : n \in {m \in Names : dbs[m] # 0}}
        \cup {<<"socket", n>> : n \in {m \in Names : socks[m] # 0}}
EmptyMap == [n \in Names |-> 0]

\* The state shutdown() works on: its locals (sd) and the fields it writes.
Current ==
    [sd |-> shutdown, initialized |-> initialized, databases |-> databases,
     sockets |-> sockets, timers |-> timers, registry |-> registry]

Ran(st, hook) == [st EXCEPT !.sd.ran[hook] = @ + 1]
At(st, pc) == [st EXCEPT !.sd.pc = pc]

\* `await hooks?.afterShutdown?.()` and the return; the caller, Katax.shutdown,
\* then clears _initialized.
FromAfterShutdown(st) ==
    IF hooks THEN At(Ran(st, "afterShutdown"), "afterShutdown")
    ELSE [At(st, "returned") EXCEPT !.initialized = FALSE]

\* `await logger.closeTransports()`
FromTransports(st) == At(st, "transports")

\* `if (registry) { await registry.unregister() ... }`
FromRegistry(st) ==
    IF st.registry THEN At(st, "unregister")
    ELSE FromTransports(st)

\* `cronService.stopAll()` (CronService.stopAll raises nothing).
FromCron(st) ==
    FromRegistry([st EXCEPT !.timers = StopAll(@), !.sd.stopped = TRUE])

\* `if (sockets.size > 0) { await Promise.allSettled(...) ...`
FromSockets(st) ==
    LET open == Registered(EmptyMap, st.sockets)
    IN
    IF open # {} THEN
        At([st EXCEPT !.sd.closing = open, !.sd.attempted = @ \cup open], "sockets")
    ELSE FromCron(st)

\* `if (databases.size > 0) { await Promise.allSettled(...) ...`
FromDatabases(st) ==
    LET open == Registered(st.databases, EmptyMap)
    IN
    IF open # {} THEN
        At([st EXCEPT !.sd.closing = open, !.sd.attempted = @ \cup open], "databases")
    ELSE FromSockets(st)

\* The loop over the settled closes of service ("database" or "websocket"):
\* every rejected result is pushed to errors and reported to the onError hook,
\* which is awaited inside the loop; after the loop the map is cleared.
RECURSIVE FromResults(_, _)
FromResults(st, service) ==
    IF st.sd.failures > 0 THEN
        LET pushed == [st EXCEPT !.sd.failures = @ - 1,
                                 !.sd.errors = Append(@, service)]
        IN
        IF hooks THEN
            At([pushed EXCEPT !.sd.resume = service], "onError")
        ELSE FromResults(pushed, service)
    ELSE IF service = "database" THEN
        FromSockets([st EXCEPT !.databases = EmptyMap, !.sd.resume = "none"])
    ELSE
        FromCron([st EXCEPT !.sockets = EmptyMap, !.sd.resume = "none"])

\* shutdown() runs on to st, its next await or its end.
Continue(st) ==
    /\ shutdown' = st.sd
    /\ initialized' = st.initialized
    /\ databases' = st.databases
    /\ sockets' = st.sockets
    /\ timers' = st.timers
    /\ registry' = st.registry
    /\ UNCHANGED <<pendingDatabases, pendingSockets, calls, returned, hooks, jobs,
                   health, standalone>>
    /\ Collect

\* The hook or the call that shutdown() awaited has thrown outside a try block.
Raise == Continue(At(Current, "raised"))

\* Katax.shutdown(): nothing to do on an instance that is not initialized;
\* otherwise LifecycleService.shutdown up to its first await.
Shutdown ==
    /\ Ready
    /\ shutdown.pc = "idle"
    /\ IF ~initialized THEN Continue(At(Current, "returned"))
       ELSE LET st == [Current EXCEPT !.sd.snapshot = Registered(databases, sockets)]
            IN IF hooks THEN Continue(At(Ran(st, "beforeShutdown"), "beforeShutdown"))
               ELSE Continue(FromDatabases(st))

\* The beforeShutdown hook returns or throws.
BeforeShutdownDone(ok) ==
    /\ Ready
    /\ shutdown.pc = "beforeShutdown"
    /\ IF ok THEN Continue(FromDatabases(Current)) ELSE Raise

\* db.close() / socket.close() of one resource settles. DatabaseService.close
\* rejects when the driver fails to close; WebSocketService.close only resolves.
CloseSettles(r, ok) ==
    /\ Ready
    /\ shutdown.pc \in {"databases", "sockets"}
    /\ r \in shutdown.closing
    /\ ok \/ r[1] = "database"
    /\ shutdown' = [shutdown EXCEPT !.closing = @ \ {r},
                                    !.failures = IF ok THEN @ ELSE @ + 1,
                                    !.failed = IF ok THEN @ ELSE @ + 1]
    /\ UNCHANGED <<regVars, calls, returned, hooks, registry, cronVars, health,
                   standalone>>

\* Promise.allSettled over the database closes resolves.
DatabasesSettled ==
    /\ Ready
    /\ shutdown.pc = "databases"
    /\ shutdown.closing = {}
    /\ Continue(FromResults(Current, "database"))

\* Promise.allSettled over the socket closes resolves.
SocketsSettled ==
    /\ Ready
    /\ shutdown.pc = "sockets"
    /\ shutdown.closing = {}
    /\ Continue(FromResults(Current, "websocket"))

\* registry.unregister() returns (RegistryService.unregister raises nothing).
Unregistered ==
    /\ Ready
    /\ shutdown.pc = "unregister"
    /\ Continue(FromTransports([Current EXCEPT !.registry = FALSE]))

\* logger.closeTransports() resolves or rejects.
TransportsClosed(ok) ==
    /\ Ready
    /\ shutdown.pc = "transports"
    /\ IF ok THEN Continue(FromAfterShutdown(Current))
       ELSE LET pushed == [Current EXCEPT !.sd.errors = Append(@, "logger-transports")]
            IN IF hooks THEN
                   Continue(At([pushed EXCEPT !.sd.resume = "logger-transports"],
                               "onError"))
               ELSE Continue(FromAfterShutdown(pushed))

\* The onError hook returns or throws: not one of its awaits is in a try block.
OnErrorDone(ok) ==
    /\ Ready
    /\ shutdown.pc = "onError"
    /\ IF ~ok THEN Raise
       ELSE IF shutdown.resume = "logger-transports" THEN
           Continue(FromAfterShutdown([Current EXCEPT !.sd.resume = "none"]))
       ELSE Continue(FromResults(Current, shutdown.resume))

\* The afterShutdown hook returns or throws.
AfterShutdownDone(ok) ==
    /\ Ready
    /\ shutdown.pc = "afterShutdown"
    /\ IF ok THEN Continue([At(Current, "returned") EXCEPT !.initialized = FALSE])
       ELSE Raise

\* The caller of shutdown() has its result.
ShutdownReturn ==
    /\ shutdown.pc \in {"returned", "raised"}
    /\ shutdown' = NoShutdown
    /\ UNCHANGED <<regVars, calls, returned, hooks, registry, cronVars, health,
                   standalone>>

\* ------------------------------------------------------------------ healthCheck()
\* The application closes a socket it holds: WebSocketService.close() drops
\* the server, the handle stays in the map.
CloseSocket(name) ==
    /\ Ready
    /\ health.pc = "idle"
    /\ HasSocket(name)
    /\ promises[sockets[name]].open
    /\ promises' = [promises EXCEPT ![sockets[name]].open = FALSE]
    /\ UNCHANGED <<mapVars, calls, returned, outsideRegistry>>

\* An acquisition made while no health check is running.
AcquireBeforeCheck(config) ==
    /\ health.pc = "idle"
    /\ IF config.kind = "database" THEN AcquireDatabase(config) ELSE AcquireSocket(config)

\* The acquisition registers its handle while no health check is running.
RegisterBeforeCheck ==
    /\ health.pc = "idle"
    /\ DatabaseResume \/ SocketResume

AsString(b) == IF b THEN "true" ELSE "false"

\* The socket loop: getServer?.() !== null for every socket in the map.
SocketProbes ==
    [n \in Names |-> IF HasSocket(n) THEN AsString(promises[sockets[n]].open)
                     ELSE "absent"]

\* (fault: an aggregate that counts the sockets when it tells unhealthy from
\* degraded)
AggregateOverAll(result, size) ==
    LET probes == ({result.databases[n] : n \in Names}
                       \cup {result.sockets[n] : n \in Names}) \ {"absent"}
    IN IF probes = {"false"} THEN "unhealthy"
       ELSE IF "false" \in probes \/ ~result.cron THEN "degraded"
       ELSE result.status
\* The end of the check: `allDbsHealthy`, `allSocketsHealthy` and the two ifs
\* that set the status, given the result so far and databases.size.
Aggregate(result, size) ==
    LET allDbsHealthy == \A n \in Names : result.databases[n] # "false"
        allSocketsHealthy == \A n \in Names : result.sockets[n] # "false"
        someDbHealthy == \E n \in Names : result.databases[n] = "true"
        degraded == IF ~allDbsHealthy \/ ~allSocketsHealthy \/ ~result.cron
                    THEN "degraded" ELSE result.status
    IN IF size > 0 /\ ~someDbHealthy THEN "unhealthy" ELSE degraded

\* After the database loop: the socket loop, cronService.getJobs() in its try
\* block, the aggregate, and the return.
Conclude(h, cronOk) ==
    LET probed == [h.result EXCEPT
                      !.sockets = SocketProbes,
                      !.cron = cronOk,
                      !.status = IF cronOk THEN @ ELSE "degraded"]
        size == Cardinality({n \in Names : HasDatabase(n)})
    IN [h EXCEPT !.pc = "returned", !.current = "",
                 !.result = [probed EXCEPT !.status = Aggregate(probed, size)]]

\* The database loop goes on from h: it awaits the probe of the next entry
\* of the map, or is through.
Unprobed(h) == {n \in Names : HasDatabase(n) /\ h.result.databases[n] = "absent"}
Iterate(h, cronOk) ==
    /\ \/ \E n \in Unprobed(h) : health' = [h EXCEPT !.pc = "probe", !.current = n]
       \/ Unprobed(h) = {} /\ health' = Conclude(h, cronOk)
    /\ UNCHANGED <<regVars, calls, returned, hooks, registry, cronVars, shutdown,
                          standalone>>

\* Katax.healthCheck() / HealthService.check up to its first await.
HealthCheck(cronOk) ==
    /\ Ready
    /\ health.pc = "idle"
    /\ IF ~initialized THEN
           /\ health' = [NoHealth EXCEPT !.pc = "raised"]
           /\ UNCHANGED <<regVars, calls, returned, hooks, registry, cronVars, shutdown,
                          standalone>>
       ELSE Iterate(NoHealth, cronOk)

\* The probe of the current database (query, PING or ping) resolves or
\* throws; the loop stores the outcome and goes on.
ProbeSettles(ok, cronOk) ==
    /\ Ready
    /\ health.pc = "probe"
    /\ Iterate([health EXCEPT
                    !.result.databases[health.current] = AsString(ok),
                    !.result.status = IF ok THEN @ ELSE "degraded",
                    !.rejected = IF ok THEN @ ELSE @ \cup {health.current}],
               cronOk)

\* The caller of healthCheck() has its result.
HealthReturn ==
    /\ health.pc \in {"returned", "raised"}
    /\ health' = NoHealth
    /\ UNCHANGED <<regVars, calls, returned, hooks, registry, cronVars, shutdown,
                          standalone>>

\* ------------------------------------------------------------------ CacheService.clear()
\* process.env.NODE_ENV, the pattern argument ("undefined" when omitted), the
\* cursors and the key pages of the SCAN replies, the errors of the client.
Envs == {"undefined", "test", "production", "Production"}
PatternArgs == {"undefined", "*", "user:*"}
Cursors == {"0", "1", "2"}
KeyPages == {<<>>, <<"k1">>, <<"k2", "k3">>}
RedisErrors == {"Connection is closed"}

\* String.prototype.toLowerCase on the values of NODE_ENV.
ToLowerCase(value) == IF value = "Production" THEN "production" ELSE value
\* (fault: a guard that is never armed)
IsProdNever(env) == FALSE
\* `process.env['NODE_ENV']?.toLowerCase() === 'production'`
IsProd(env) == env # "undefined" /\ ToLowerCase(env) = "production"
\* The default parameter: `pattern: string = '*'`.
PatternOf(arg) == IF arg = "undefined" THEN "*" ELSE arg

SafetyMessage == "cache.clear(\"*\") is disabled in production for safety"
\* DatabaseService.redis wraps the client's error, clear() wraps any error.
RedisCommandFailed(cause) == <<"Redis command failed: ", cause>>
CacheClearFailed(errorMessage) == <<"Cache clear failed: ">> \o errorMessage

\* The commands as clear() passes them to redis(...).
ScanCommand(cursor, pattern) == <<"SCAN", cursor, "MATCH", pattern, "COUNT", "500">>
DelCommand(keys) == <<"DEL">> \o keys

\* (fault: a loop that stops at the first empty page)
ContinuesWhileKeys(cursor, keys) == keys # <<>>
\* `while (cursor !== '0')`
Continues(cursor, keys) == cursor # "0"
\* (fault: a total that counts pages)
CountPage(deleted, keys) == deleted + 1
\* `deleted += keys.length`
CountKeys(deleted, keys) == deleted + Len(keys)

Send(c, command) == [c EXCEPT !.commands = Append(@, command)]
\* The end of one iteration: the loop test, then the next SCAN or the return.
NextIteration(c, keys) ==
    IF Continues(c.cursor, keys) THEN
        [Send(c, ScanCommand(c.cursor, c.pattern)) EXCEPT !.pc = "scan", !.keys = <<>>]
    ELSE [c EXCEPT !.pc = "returned", !.keys = <<>>, !.result = <<c.deleted>>]
ClearRaises(c, errorMessage) ==
    [c EXCEPT !.pc = "raised", !.result = CacheClearFailed(errorMessage)]

\* clear(pattern) up to its first await: the production guard, the first SCAN.
Clear(env, arg) ==
    LET pattern == PatternOf(arg)
        c == [NoClear EXCEPT !.env = env, !.pattern = pattern]
    IN
    /\ cache.pc = "idle"
    /\ cache' = IF IsProd(env) /\ pattern = "*" THEN ClearRaises(c, <<SafetyMessage>>)
                ELSE [Send(c, ScanCommand("0", pattern)) EXCEPT !.pc = "scan"]
    /\ UNCHANGED exceptCache

\* The SCAN reply [cursor, keys] arrives: DEL for a page that has keys,
\* otherwise the loop test. A scan is over after MaxPages pages at the latest.
ScanReplies(cursor, keys) ==
    LET c == [cache EXCEPT !.cursor = cursor, !.pages = Append(@, <<cursor, keys>>)]
    IN
    /\ cache.pc = "scan"
    /\ Len(cache.pages) + 1 < MaxPages \/ cursor = "0"
    /\ cache' = IF Len(keys) > 0
                THEN [Send(c, DelCommand(keys)) EXCEPT !.pc = "del", !.keys = keys]
                ELSE NextIteration(c, keys)
    /\ UNCHANGED exceptCache

\* The DEL reply arrives.
DelReplies ==
    /\ cache.pc = "del"
    /\ cache' = NextIteration([cache EXCEPT !.deleted = CountKeys(@, cache.keys)],
                              cache.keys)
    /\ UNCHANGED exceptCache

\* The command that clear() awaits fails.
CommandFails(cause) ==
    /\ cache.pc \in {"scan", "del"}
    /\ cache' = ClearRaises(cache, RedisCommandFailed(cause))
    /\ UNCHANGED exceptCache

\* The caller of clear() has its result.
ClearReturn ==
    /\ cache.pc \in {"returned", "raised"}
    /\ cache' = NoClear
    /\ UNCHANGED exceptCache

\* ------------------------------------------------------------------ RegistryService
\* What fetch() settles with: a response status, or a rejection.
Replies == {"200", "503", "TypeError"}
\* `response.ok`
Ok(reply) == reply = "200"
\* The error of a failed attempt: `HTTP <status>: <statusText>`, or fetch's own.
ErrorOf(reply) == IF reply = "TypeError" THEN <<"fetch failed">> ELSE <<"HTTP ", reply>>
HandlerError == <<"handler failed">>
NoTarget(action) ==
    <<"Registry action '", action, "' has no handler and no url configured">>
\* `throw lastError instanceof Error ? lastError : new Error(String(lastError))`
LastError(outcomes) ==
    IF outcomes = <<>> THEN <<"undefined">> ELSE ErrorOf(outcomes[Len(outcomes)])

\* The constructor's default: `retryAttempts: 2, ...config`, and `?? 2`.
RetryAttemptsOf(config) ==
    IF config.retryAttempts = <<>> THEN 2 ELSE config.retryAttempts[1]
\* (fault: no clamp at zero)
AttemptsUnclamped(config) == RetryAttemptsOf(config) + 1
\* `Math.max(0, this.config.retryAttempts ?? 2) + 1`
Attempts(config) ==
    (IF RetryAttemptsOf(config) > 0 THEN RetryAttemptsOf(config) ELSE 0) + 1

\* The constructor's default: `retryBaseDelayMs: 300, ...config`, and `?? 300`.
RetryBaseDelayMsOf(config) ==
    IF config.retryBaseDelayMs = <<>> THEN 300 ELSE config.retryBaseDelayMs[1]
\* `Math.max(0, this.config.retryBaseDelayMs ?? 300)`
BaseDelay(config) ==
    IF RetryBaseDelayMsOf(config) > 0 THEN RetryBaseDelayMsOf(config) ELSE 0
\* `Math.floor(Math.random() * 100)`: an integer from 0 to 99; its ends.
Jitters == {0, 99}
\* (fault: a delay that does not grow)
DelayFixed(baseDelay, attempt, jitter) == baseDelay + jitter
\* `baseDelay * 2 ** (attempt - 1) + jitter`
Delay(baseDelay, attempt, jitter) == baseDelay * 2 ^ (attempt - 1) + jitter

\* (fault: a heartbeat is started whatever the target)
HasHeartbeatTargetAlways(config) == TRUE
\* `this.hasHttpRegistry || Boolean(this.config.handler?.heartbeat)`
HasHeartbeatTarget(config) == config.url \/ "heartbeat" \in config.callbacks

\* stopHeartbeat()
StopHeartbeat(service) ==
    IF service.heartbeatTimer = "null" THEN service
    ELSE [service EXCEPT !.heartbeatTimer = "null", !.live = @ - 1]
\* (fault: setInterval without stopHeartbeat() before it)
StartHeartbeatOver(service) ==
    [service EXCEPT !.heartbeatTimer = "Timeout", !.live = @ + 1]
\* startHeartbeat(): stopHeartbeat(), then setInterval
StartHeartbeat(service) ==
    [StopHeartbeat(service) EXCEPT !.heartbeatTimer = "Timeout", !.live = @ + 1]

\* (fault: a failed heartbeat that stops the timer)
SendHeartbeatGivesUp(service) == StopHeartbeat(service)
\* The catch block of sendHeartbeat(): it logs.
SendHeartbeatCatch(service) == service

\* `new RegistryService(config)`; without url and handler the constructor
\* throws and there is no service.
NewRegistryService(config) ==
    /\ ~registryService.constructed
    /\ config.url \/ config.handler
    /\ registryService' = [NoRegistryService EXCEPT !.constructed = TRUE,
                                                    !.config = config]
    /\ UNCHANGED <<registryCalls, exceptRegistry>>

\* The code after `await this.executeAction(...)` in register(),
\* sendHeartbeat() and unregister(): on success, and in the catch block.
Settle(action, call, ok, error) ==
    CASE action = "register" ->
            /\ registryService' =
                   IF ~ok THEN registryService
                   ELSE LET service == [registryService EXCEPT !.registered = TRUE]
                        IN IF HasHeartbeatTarget(service.config)
                           THEN StartHeartbeat(service) ELSE service
            /\ registryCalls' = [registryCalls EXCEPT ![action] =
                   IF ok THEN [call EXCEPT !.pc = "returned"]
                   ELSE [call EXCEPT !.pc = "raised", !.result = error]]
      [] action = "heartbeat" ->
            /\ registryService' =
                   IF ok THEN registryService ELSE SendHeartbeatCatch(registryService)
            /\ registryCalls' = [registryCalls EXCEPT ![action] =
                   [call EXCEPT !.pc = "returned", !.result = IF ok THEN <<>> ELSE error]]
      [] action = "unregister" ->
            /\ registryService' = [registryService EXCEPT !.registered = FALSE]
            /\ registryCalls' = [registryCalls EXCEPT ![action] =
                   [call EXCEPT !.pc = "returned", !.result = IF ok THEN <<>> ELSE error]]

\* The head of the loop of fetchWithRetry: the next fetch, or the throw
\* after the loop.
FetchLoop(action, call) ==
    IF call.attempt <= Attempts(registryService.config)
    THEN /\ registryCalls' = [registryCalls EXCEPT ![action] = [call EXCEPT !.pc = "fetch"]]
         /\ UNCHANGED registryService
    ELSE Settle(action, call, FALSE, LastError(call.outcomes))

\* executeAction(action, body) up to its await: the handler's callback, the
\* throw when there is neither callback nor url, or the first fetch.
ExecuteAction(action, service) ==
    IF action \in service.config.callbacks THEN
        /\ registryCalls' = [registryCalls EXCEPT ![action] = [NoCall EXCEPT !.pc = "handler"]]
        /\ registryService' = service
    ELSE IF ~service.config.url THEN
        /\ registryCalls' = [registryCalls EXCEPT ![action] =
               [NoCall EXCEPT !.pc = IF action = "register" THEN "raised" ELSE "returned",
                              !.result = NoTarget(action)]]
        /\ registryService' =
               IF action = "unregister" THEN [service EXCEPT !.registered = FALSE]
               ELSE IF action = "heartbeat" THEN SendHeartbeatCatch(service)
               ELSE service
    ELSE IF 1 <= Attempts(service.config) THEN
        /\ registryCalls' = [registryCalls EXCEPT ![action] =
               [NoCall EXCEPT !.pc = "fetch", !.attempt = 1]]
        /\ registryService' = service
    ELSE
        /\ registryCalls' = [registryCalls EXCEPT ![action] =
               [NoCall EXCEPT !.pc = IF action = "register" THEN "raised" ELSE "returned",
                              !.attempt = 1,
                              !.result = LastError(<<>>)]]
        /\ registryService' =
               IF action = "unregister" THEN [service EXCEPT !.registered = FALSE]
               ELSE IF action = "heartbeat" THEN SendHeartbeatCatch(service)
               ELSE service

\* register() up to its await.
Register ==
    /\ registryService.constructed
    /\ registryCalls["register"].pc = "idle"
    /\ ExecuteAction("register", registryService)
    /\ UNCHANGED exceptRegistry

\* A tick of the interval timer: sendHeartbeat() up to its await.
Tick ==
    /\ registryService.heartbeatTimer = "Timeout"
    /\ registryCalls["heartbeat"].pc = "idle"
    /\ ExecuteAction("heartbeat", registryService)
    /\ UNCHANGED exceptRegistry

\* (fault: no `if (!this.registered) return`)
UnregisterAlways ==
    /\ registryService.constructed
    /\ registryCalls["unregister"].pc = "idle"
    /\ ExecuteAction("unregister", StopHeartbeat(registryService))
    /\ UNCHANGED exceptRegistry
\* unregister() up to its await: stopHeartbeat(), the return when the
\* service is not registered, the unregister call otherwise.
Unregister ==
    /\ registryService.constructed
    /\ registryCalls["unregister"].pc = "idle"
    /\ IF ~registryService.registered
       THEN /\ registryService' = StopHeartbeat(registryService)
            /\ registryCalls' = [registryCalls EXCEPT !["unregister"] =
                   [NoCall EXCEPT !.pc = "returned"]]
       ELSE ExecuteAction("unregister", StopHeartbeat(registryService))
    /\ UNCHANGED exceptRegistry

\* The handler's callback settles.
HandlerSettles(action, ok) ==
    /\ registryCalls[action].pc = "handler"
    /\ Settle(action, registryCalls[action], ok, HandlerError)
    /\ UNCHANGED exceptRegistry

\* fetch() settles: the response is returned when it is ok; otherwise the
\* error is kept and the call sleeps if an attempt is left, and throws the
\* last error if not.
FetchSettles(action, reply) ==
    LET call == [registryCalls[action] EXCEPT !.outcomes = Append(@, reply)]
    IN
    /\ registryCalls[action].pc = "fetch"
    /\ IF Ok(reply) THEN Settle(action, call, TRUE, <<>>)
       ELSE IF call.attempt < Attempts(registryService.config)
       THEN /\ \E jitter \in Jitters :
                   registryCalls' = [registryCalls EXCEPT ![action] =
                       [call EXCEPT !.pc = "sleep",
                                    !.delays = Append(@,
                                        Delay(BaseDelay(registryService.config),
                                              call.attempt, jitter))]]
            /\ UNCHANGED registryService
       ELSE Settle(action, call, FALSE, LastError(call.outcomes))
    /\ UNCHANGED exceptRegistry

\* The backoff sleep is over: the next turn of the loop.
Slept(action) ==
    /\ registryCalls[action].pc = "sleep"
    /\ FetchLoop(action, [registryCalls[action] EXCEPT !.attempt = @ + 1])
    /\ UNCHANGED exceptRegistry

\* The caller has the outcome of its call (a heartbeat has no caller: the
\* timer's callback drops the promise).
RegistryReturn(action) ==
    /\ registryCalls[action].pc \in {"returned", "raised"}
    /\ registryCalls' = [registryCalls EXCEPT ![action] = NoCall]
    /\ UNCHANGED <<registryService, exceptRegistry>>

\* ------------------------------------------------------------------ CronService
Schedules == {"* * * * *", "every minute"}
\* cron.validate(schedule)
Validate(schedule) == schedule = "* * * * *"
\* `enabled?: boolean | (() => boolean)`
Enableds == {"undefined", "true", "false", "function"}
CronJobConfigs ==
    [name : CronNames, schedule : Schedules, enabled : Enableds, runOnInit : BOOLEAN]

\* (fault: no try around the call of the predicate)
IsJobEnabledNoCatch(config, outcome) ==
    IF config.enabled = "undefined" THEN "true"
    ELSE IF config.enabled \in {"true", "false"} THEN config.enabled
    ELSE outcome
\* isJobEnabled(config), for a predicate that gives `outcome` when called.
IsJobEnabled(config, outcome) ==
    IF config.enabled = "undefined" THEN "true"
    ELSE IF config.enabled \in {"true", "false"} THEN config.enabled
    ELSE IF outcome = "throws" THEN "false"
    ELSE outcome

\* this.jobs.has(name), and the place of the entry in the map.
HasJob(service, name) == \E i \in 1..Len(service.jobs) : service.jobs[i].config.name = name
JobIndex(service, name) ==
    CHOOSE i \in 1..Len(service.jobs) : service.jobs[i].config.name = name
\* The outcomes of the predicates a call evaluated: those of the jobs in
\* `names` whose `enabled` is a function.
Evaluated(service, names, outcomes) ==
    [name \in CronNames |->
        IF name \in names /\ HasJob(service, name)
              /\ service.jobs[JobIndex(service, name)].config.enabled = "function"
        THEN outcomes[name] ELSE "none"]

\* (fault: a job that is registered is always started)
StartAlways(isInitialized, enabled) == enabled # "throws"
\* `this.initialized && this.isJobEnabled(job)`
StartOnAdd(isInitialized, enabled) == isInitialized /\ enabled = "true"

\* startJobInternal(name, jobState)
StartJobInternal(jobState) ==
    [jobState EXCEPT !.task = "ScheduledTask", !.running = TRUE, !.live = @ + 1]

CronReady == cronCall = NoCronCall

\* addJob(job); `outcome` is what the job's predicate gives if it is called.
AddJob(job, outcome) ==
    LET called == cronService.initialized /\ job.enabled = "function"
        enabled == IF cronService.initialized THEN IsJobEnabled(job, outcome) ELSE "none"
        jobState == [config |-> job, task |-> "null", running |-> FALSE, live |-> 0]
        call == [NoCronCall EXCEPT !.op = "addJob", !.job = job]
    IN
    /\ CronReady
    /\ IF HasJob(cronService, job.name) \/ ~Validate(job.schedule)
       THEN /\ cronCall' = [call EXCEPT !.outcome = "raised"]
            /\ UNCHANGED cronService
       ELSE /\ cronService' = [cronService EXCEPT !.jobs = Append(@,
                   IF StartOnAdd(cronService.initialized, enabled)
                   THEN StartJobInternal(jobState) ELSE jobState)]
            /\ cronCall' = [call EXCEPT
                   !.outcome = IF enabled = "throws" THEN "raised" ELSE "returned",
                   !.evaluated[job.name] = IF called THEN outcome ELSE "none"]
    /\ UNCHANGED <<cronInit, cronTasks, exceptCron>>

\* startJob(name)
StartJob(name, outcome) ==
    LET call == [NoCronCall EXCEPT !.op = "startJob", !.job.name = name]
    IN
    /\ CronReady
    /\ IF ~HasJob(cronService, name)
       THEN /\ cronCall' = [call EXCEPT !.outcome = "raised"]
            /\ UNCHANGED cronService
       ELSE LET i == JobIndex(cronService, name)
                jobState == cronService.jobs[i]
                enabled == IsJobEnabled(jobState.config, outcome)
            IN
            /\ cronService' =
                   IF enabled = "true" /\ ~jobState.running
                   THEN [cronService EXCEPT !.jobs[i] = StartJobInternal(jobState)]
                   ELSE cronService
            /\ cronCall' = [call EXCEPT
                   !.outcome = IF enabled = "throws" THEN "raised" ELSE "returned",
                   !.evaluated[name] =
                       IF jobState.config.enabled = "function" THEN outcome ELSE "none"]
    /\ UNCHANGED <<cronInit, cronTasks, exceptCron>>

\* getJobs(); `outcomes` is what each job's predicate gives if it is called.
GetJobs(outcomes) ==
    LET listing == [i \in 1..Len(cronService.jobs) |->
            [name |-> cronService.jobs[i].config.name,
             schedule |-> cronService.jobs[i].config.schedule,
             enabled |-> IsJobEnabled(cronService.jobs[i].config,
                                      outcomes[cronService.jobs[i].config.name]),
             running |-> cronService.jobs[i].running]]
        threw == \E i \in 1..Len(listing) : listing[i].enabled = "throws"
    IN
    /\ CronReady
    /\ cronCall' = [NoCronCall EXCEPT
           !.op = "getJobs",
           !.outcome = IF threw THEN "raised" ELSE "returned",
           !.evaluated = Evaluated(cronService, CronNames, outcomes),
           !.listing = IF threw THEN <<>> ELSE listing]
    /\ UNCHANGED <<cronService, cronInit, cronTasks, exceptCron>>

\* The second loop of init() from jobs[from] on: it awaits the task of the
\* next job that is enabled and has runOnInit, and sets initialized after the
\* last job. `evaluated` is what the first loop's predicates gave.
RunOnInit(service, from, outcomes, evaluated) ==
    LET enabled(i) == IsJobEnabled(service.jobs[i].config,
                                   outcomes[service.jobs[i].config.name])
        stops == {i \in from..Len(service.jobs) :
                     \/ enabled(i) = "throws"
                     \/ enabled(i) = "true" /\ service.jobs[i].config.runOnInit}
        i == CHOOSE i \in stops : \A j \in stops : i <= j
        done == [NoCronCall EXCEPT !.op = "init", !.evaluated = evaluated]
    IN
    IF stops = {} THEN
        /\ cronService' = [service EXCEPT !.initialized = TRUE]
        /\ cronInit' = NoCronInit
        /\ cronCall' = [done EXCEPT !.outcome = "returned"]
        /\ UNCHANGED cronTasks
    ELSE IF enabled(i) = "throws" THEN
        /\ cronService' = service
        /\ cronInit' = NoCronInit
        /\ cronCall' = [done EXCEPT !.outcome = "raised"]
        /\ UNCHANGED cronTasks
    ELSE
        /\ cronService' = service
        /\ cronInit' = [pc |-> "task", at |-> i, evaluated |-> evaluated]
        /\ cronCall' = cronCall
        /\ cronTasks' = [cronTasks EXCEPT ![service.jobs[i].config.name].onInit = @ + 1]

\* init() up to its first await: the return when it is initialized already;
\* otherwise the first loop, which starts every job that is enabled, and the
\* second loop up to the first task it runs.
CronInit(first, second) ==
    LET enabled(i) == IsJobEnabled(cronService.jobs[i].config,
                                   first[cronService.jobs[i].config.name])
        throwing == {i \in 1..Len(cronService.jobs) : enabled(i) = "throws"}
        reached(i) == \A j \in throwing : i < j
        started == [cronService EXCEPT !.jobs =
            [i \in 1..Len(cronService.jobs) |->
                IF reached(i) /\ enabled(i) = "true"
                THEN StartJobInternal(cronService.jobs[i]) ELSE cronService.jobs[i]]]
        names == {cronService.jobs[i].config.name : i \in
                     {i \in 1..Len(cronService.jobs) : \A j \in throwing : i <= j}}
        evaluated == Evaluated(cronService, names, first)
    IN
    /\ CronReady
    /\ cronInit.pc = "idle"
    /\ IF cronService.initialized THEN
           /\ cronCall' = [NoCronCall EXCEPT !.op = "init", !.outcome = "returned"]
           /\ UNCHANGED <<cronService, cronInit, cronTasks>>
       ELSE IF throwing # {} THEN
           /\ cronService' = started
           /\ cronCall' = [NoCronCall EXCEPT !.op = "init", !.outcome = "raised",
                                             !.evaluated = evaluated]
           /\ UNCHANGED <<cronInit, cronTasks>>
       ELSE RunOnInit(started, 1, second, evaluated)
    /\ UNCHANGED exceptCron

\* The task that init() awaits settles, either way: the loop goes on.
CronTaskSettles(ok, outcomes) ==
    /\ CronReady
    /\ cronInit.pc = "task"
    /\ RunOnInit(cronService, cronInit.at + 1, outcomes, cronInit.evaluated)
    /\ UNCHANGED exceptCron

\* (fault: a stop that does not look at the task)
StopTaskAlways(jobState) ==
    [jobState EXCEPT !.task = "null", !.running = FALSE, !.live = @ - 1]
\* task.stop() on the job's scheduled task, if it has one.
StopTask(jobState) ==
    IF jobState.task = "null" THEN jobState
    ELSE [jobState EXCEPT !.task = "null", !.running = FALSE, !.live = @ - 1]

\* removeJob(name): the job's task is stopped and its entry deleted. The
\* iterator of an init() in flight stays on the entry it is at.
RemoveJob(name) ==
    LET call == [NoCronCall EXCEPT !.op = "removeJob", !.job.name = name]
    IN
    /\ CronReady
    /\ cronTasks[name].onInit < MaxRuns
    /\ IF ~HasJob(cronService, name)
       THEN /\ cronCall' = [call EXCEPT !.outcome = "raised"]
            /\ UNCHANGED <<cronService, cronInit, cronTasks>>
       ELSE LET i == JobIndex(cronService, name)
                stopped == StopTask(cronService.jobs[i])
            IN
            /\ cronService' = [cronService EXCEPT !.jobs =
                   SubSeq(@, 1, i - 1) \o SubSeq(@, i + 1, Len(@))]
            /\ cronInit' = IF cronInit.pc = "task" /\ i <= cronInit.at
                           THEN [cronInit EXCEPT !.at = @ - 1] ELSE cronInit
            /\ cronTasks' = [cronTasks EXCEPT ![name].orphans = @ + stopped.live]
            /\ cronCall' = [call EXCEPT !.outcome = "returned"]
    /\ UNCHANGED exceptCron

\* stopJob(name)
StopJob(name) ==
    LET call == [NoCronCall EXCEPT !.op = "stopJob", !.job.name = name]
    IN
    /\ CronReady
    /\ IF ~HasJob(cronService, name)
       THEN /\ cronCall' = [call EXCEPT !.outcome = "raised"]
            /\ UNCHANGED cronService
       ELSE /\ cronService' = [cronService EXCEPT
                   !.jobs[JobIndex(cronService, name)] = StopTask(@)]
            /\ cronCall' = [call EXCEPT !.outcome = "returned"]
    /\ UNCHANGED <<cronInit, cronTasks, exceptCron>>

\* stopAll()
CronStopAll ==
    /\ CronReady
    /\ cronService' = [cronService EXCEPT !.jobs =
           [i \in 1..Len(cronService.jobs) |-> StopTask(cronService.jobs[i])]]
    /\ cronCall' = [NoCronCall EXCEPT !.op = "stopAll", !.outcome = "returned"]
    /\ UNCHANGED <<cronInit, cronTasks, exceptCron>>

\* The scheduled tasks that fire for a name: those of its job, and the orphans.
LiveTasks(name) ==
    (IF HasJob(cronService, name) THEN cronService.jobs[JobIndex(cronService, name)].live
     ELSE 0) + cronTasks[name].orphans
\* What the enable predicate of the job of a name is worth when a function
\* gives `outcome`; "none" when the name has no job.
PredicateNow(name, outcome) ==
    IF ~HasJob(cronService, name) THEN "none"
    ELSE LET config == cronService.jobs[JobIndex(cronService, name)].config
         IN IF config.enabled = "undefined" THEN "true"
            ELSE IF config.enabled = "function"
                 THEN (IF outcome = "true" THEN "true" ELSE "false")
            ELSE config.enabled

\* (fault: no try around the task)
ExecutingJobRethrows(task) == [task EXCEPT !.failed = TRUE, !.unhandled = TRUE]
\* The catch block of the scheduled callback: it logs.
ExecutingJobCatch(task) == [task EXCEPT !.failed = TRUE]

\* A scheduled task of the name fires: the callback calls config.task() and
\* awaits what it returns. `predicate` is what the enable predicate would give
\* now, which the callback does not ask; the task throws, or returns a value
\* or a promise.
Fire(name, predicate, throws) ==
    LET task == [cronTasks[name] EXCEPT !.runs = @ + 1,
                                        !.predicate = PredicateNow(name, predicate)]
    IN
    /\ CronReady
    /\ LiveTasks(name) > 0
    /\ ~cronTasks[name].firing
    /\ cronTasks[name].runs < MaxRuns
    /\ cronTasks' = [cronTasks EXCEPT ![name] =
           IF throws THEN ExecutingJobCatch(task) ELSE [task EXCEPT !.firing = TRUE]]
    /\ UNCHANGED <<cronService, cronInit, cronCall, exceptCron>>

\* What the firing awaits settles.
FiringSettles(name, ok) ==
    LET task == [cronTasks[name] EXCEPT !.firing = FALSE]
    IN
    /\ CronReady
    /\ cronTasks[name].firing
    /\ cronTasks' = [cronTasks EXCEPT ![name] =
           IF ok THEN task ELSE ExecutingJobCatch(task)]
    /\ UNCHANGED <<cronService, cronInit, cronCall, exceptCron>>

\* The caller has the outcome of its call.
CronReturn ==
    /\ ~CronReady
    /\ cronCall' = NoCronCall
    /\ UNCHANGED <<cronService, cronInit, cronTasks, exceptCron>>

\* ------------------------------------------------------------------ init() with a registry
\* Katax.isRegistered: `this._registry?.isRegistered ?? false`
IsRegistered == registry /\ registryService.registered

\* The callback that a call of the action has just invoked, if any.
Invoked(counts, action) ==
    IF registryCalls'[action].pc = "handler" THEN [counts EXCEPT ![action] = @ + 1]
    ELSE counts

\* init(config) on an instance that is not initialized, up to
\* `await this._cronService.init()`.
InitBegins(config) ==
    /\ lifecycle.pc = "idle"
    /\ ~initialized
    /\ lifecycle' = [NoLifecycle EXCEPT !.pc = "cron", !.config = config]
    /\ jobs' = {}
    /\ timers' = {}
    /\ UNCHANGED <<initialized, hooks, registry, registryVars, exceptLifecycle>>

\* The catch block around the registration in init(): it logs a warning.
InitCatch(call, failure) == [call EXCEPT !.pc = "initReturned", !.caught = failure]

\* init() after the cron service is ready: _initialized is set; with
\* config.registry the RegistryService is made (its constructor throws
\* without url and handler) and register() runs up to its await.
InitCronReady ==
    LET config == lifecycle.config
        service == [NoRegistryService EXCEPT !.constructed = TRUE,
                                             !.config = config.registry[1]]
    IN
    /\ lifecycle.pc = "cron"
    /\ initialized' = TRUE
    /\ hooks' = config.hooks
    /\ IF config.registry = <<>> THEN
           /\ lifecycle' = [lifecycle EXCEPT !.pc = "initReturned"]
           /\ UNCHANGED <<registry, registryVars>>
       ELSE IF ~(service.config.url \/ service.config.handler) THEN
           /\ lifecycle' = InitCatch(lifecycle, "constructor")
           /\ UNCHANGED <<registry, registryVars>>
       ELSE
           /\ registry' = TRUE
           /\ ExecuteAction("register", service)
           /\ lifecycle' = [lifecycle EXCEPT !.pc = "register",
                                             !.invoked = Invoked(@, "register")]
    /\ UNCHANGED <<jobs, timers, exceptLifecycle>>

\* register() has returned or thrown: init() returns either way.
InitRegistered ==
    /\ lifecycle.pc = "register"
    /\ registryCalls["register"].pc \in {"returned", "raised"}
    /\ lifecycle' = IF registryCalls["register"].pc = "raised"
                    THEN InitCatch(lifecycle, "register")
                    ELSE [lifecycle EXCEPT !.pc = "initReturned"]
    /\ registryCalls' = [registryCalls EXCEPT !["register"] = NoCall]
    /\ UNCHANGED <<initialized, hooks, registry, registryService, jobs, timers,
                   exceptLifecycle>>

\* (fault: a shutdown that forgets the registry)
HasRegistryNever == FALSE
\* `if (this._registry)` in shutdown()
HasRegistry == registry

\* shutdown() of an initialized instance that holds no database and no
\* socket: the cron jobs are stopped and, with a registry, unregister() runs
\* up to its await.
ShutdownBegins ==
    /\ lifecycle.pc = "idle"
    /\ initialized
    /\ timers' = StopAll(timers)
    /\ IF ~HasRegistry THEN
           /\ initialized' = FALSE
           /\ lifecycle' = [lifecycle EXCEPT !.pc = "shutdownReturned"]
           /\ UNCHANGED registryVars
       ELSE
           /\ IF ~registryService.registered
              THEN /\ registryService' = StopHeartbeat(registryService)
                   /\ registryCalls' = [registryCalls EXCEPT !["unregister"] =
                          [NoCall EXCEPT !.pc = "returned"]]
              ELSE ExecuteAction("unregister", StopHeartbeat(registryService))
           /\ lifecycle' = [lifecycle EXCEPT !.pc = "unregister",
                                             !.invoked = Invoked(@, "unregister")]
           /\ UNCHANGED initialized
    /\ UNCHANGED <<hooks, registry, jobs, exceptLifecycle>>

\* unregister() has returned: _registry and _initialized are cleared.
ShutdownUnregistered ==
    /\ lifecycle.pc = "unregister"
    /\ registryCalls["unregister"].pc \in {"returned", "raised"}
    /\ registry' = FALSE
    /\ initialized' = FALSE
    /\ lifecycle' = [lifecycle EXCEPT !.pc = "shutdownReturned"]
    /\ registryCalls' = [registryCalls EXCEPT !["unregister"] = NoCall]
    /\ UNCHANGED <<hooks, registryService, jobs, timers, exceptLifecycle>>

\* The caller of init() or shutdown() has its result.
LifecycleReturn ==
    /\ lifecycle.pc \in {"initReturned", "shutdownReturned"}
    /\ lifecycle' = [lifecycle EXCEPT !.pc = "idle"]
    /\ UNCHANGED <<initialized, hooks, registry, registryVars, jobs, timers,
                   exceptLifecycle>>

\* ------------------------------------------------------------------ accessors
\* The getters config, logger and cronService, and db(name), ws(name),
\* cron(job) and cache(redisName), as the config of a call.
AccessConfigs ==
    [kind : {"config", "logger", "cronService"}, name : {""}, type : {"none"},
     required : {"undefined"}]
        \cup [kind : {"db", "ws", "cache"}, name : Names, type : {"none"},
              required : {"undefined"}]
        \cup [kind : {"cron"}, name : JobNames, type : {"none"}, required : {"undefined"}]
\* What a getter returns, and the CacheService of a name.
Service == [tag |-> "service", id |-> 0, message |-> <<>>]
\* The errors of the lookups (the list of available names is left out).
DatabaseNotFound(name) == <<"Database '", name, "' not found">>
WebSocketNotFound(name) == <<"WebSocket '", name, "' not found">>
RedisNotFound(name) == <<"Redis connection '", name, "' not found">>
NotRedis(name, type) ==
    <<"Database '", name, "' is not a Redis connection (type: ", type, ")">>
JobExists(name) == <<"Cron job '", name, "' already exists">>

\* (fault: accessors that do not check)
EnsureInitializedNeverThrows == FALSE
\* ensureInitialized() throws.
EnsureInitializedThrows == ~initialized

\* A synchronous accessor: ensureInitialized() first, then its lookup.
\* cron(job) adds the job and cache(redisName) stores the instance it makes.
Access(config) ==
    LET name == config.name
        result ==
            CASE config.kind \in {"config", "logger", "cronService"} -> Service
              [] config.kind = "db" ->
                    IF HasDatabase(name) THEN Handle(databases[name])
                    ELSE Raised(DatabaseNotFound(name))
              [] config.kind = "ws" ->
                    IF HasSocket(name) THEN Handle(sockets[name])
                    ELSE Raised(WebSocketNotFound(name))
              [] config.kind = "cron" ->
                    IF name \in jobs THEN Raised(JobExists(name)) ELSE Null
              [] config.kind = "cache" ->
                    IF name \in cacheInstances THEN Service
                    ELSE IF ~HasDatabase(name) THEN Raised(RedisNotFound(name))
                    ELSE IF promises[databases[name]].type # "redis"
                         THEN Raised(NotRedis(name, promises[databases[name]].type))
                    ELSE Service
    IN
    /\ Ready
    /\ IF EnsureInitializedThrows THEN
           /\ Finish(config, "uninitialized", Raised(NotInitializedMessage))
           /\ UNCHANGED <<jobs, timers, cacheInstances>>
       ELSE
           /\ Finish(config, "accessor", result)
           /\ jobs' = IF config.kind = "cron" THEN jobs \cup {name} ELSE jobs
           /\ timers' = IF config.kind = "cron" /\ name \notin jobs
                         THEN timers \cup {name} ELSE timers
           /\ cacheInstances' = IF config.kind = "cache" /\ result = Service
                                 THEN cacheInstances \cup {name} ELSE cacheInstances
    /\ UNCHANGED <<mapVars, exceptAccess>>
    /\ Collect

\* ------------------------------------------------------------------ close()
\* (fault: no early return)
IsClosedNever(service) == FALSE
\* The early return of close(): the service is not initialized or has no pool.
IsClosed(service) == ~service.initialized \/ service.pool = "undefined"

\* init() of a service that is not initialized: the WebSocketService makes its
\* server at once, the DatabaseService awaits adapter.init(config).
ServiceInit(kind) ==
    /\ ~services[kind].initialized
    /\ ~services[kind].connecting
    /\ IF kind = "socket"
       THEN /\ services' = [services EXCEPT ![kind].initialized = TRUE,
                                            ![kind].pool = "Server"]
            /\ closeCalls' = [closeCalls EXCEPT ![kind] =
                   [NoCloseCalls EXCEPT !.closing = closeCalls[kind].closing]]
       ELSE /\ services' = [services EXCEPT ![kind].connecting = TRUE]
            /\ UNCHANGED closeCalls
    /\ UNCHANGED exceptRelease

\* adapter.init(config) settles: with the pool, or init() throws.
ServiceInitSettles(ok) ==
    /\ services["database"].connecting
    /\ IF ok
       THEN /\ services' = [services EXCEPT !["database"] =
                   [initialized |-> TRUE, pool |-> "Pool", connecting |-> FALSE]]
            /\ closeCalls' = [closeCalls EXCEPT !["database"] =
                   [NoCloseCalls EXCEPT !.closing = closeCalls["database"].closing]]
       ELSE /\ services' = [services EXCEPT !["database"].connecting = FALSE]
            /\ UNCHANGED closeCalls
    /\ UNCHANGED exceptRelease

\* close() up to its await: it returns at once on a closed service, and
\* otherwise invokes the driver's close (adapter.close(pool), io.close(cb)).
Close(kind) ==
    /\ closeCalls[kind].calls < MaxCloses
    /\ closeCalls[kind].closing < MaxCallers
    /\ closeCalls' = [closeCalls EXCEPT ![kind] =
           IF IsClosed(services[kind])
           THEN [@ EXCEPT !.calls = @ + 1, !.last = "returned"]
           ELSE [@ EXCEPT !.calls = @ + 1, !.closing = @ + 1, !.driverCloses = @ + 1]]
    /\ UNCHANGED <<services, exceptRelease>>

\* The driver's close settles. adapter.close rejects or resolves, and close()
\* throws 'Failed to close database' or marks the service closed; io.close
\* only calls back.
DriverCloseSettles(kind, ok) ==
    /\ closeCalls[kind].closing > 0
    /\ ok \/ kind = "database"
    /\ closeCalls' = [closeCalls EXCEPT ![kind].closing = @ - 1,
                                        ![kind].last = IF ok THEN "returned" ELSE "raised"]
    /\ services' = IF ok
                   THEN [services EXCEPT ![kind].initialized = FALSE,
                                         ![kind].pool = "undefined"]
                   ELSE services
    /\ UNCHANGED exceptRelease

\* ------------------------------------------------------------------ spec
Next ==
    \/ KataxInit(NoInitConfig)
    \/ \E config \in DatabaseConfigs : Database(config)
    \/ \E p \in Ids, ok \in BOOLEAN, cause \in Causes : CreateDatabaseSettles(p, ok, cause)
    \/ DatabaseResume
    \/ DatabaseJoined
    \/ \E config \in WebSocketConfigs : Socket(config)
    \/ \E p \in Ids, ok \in BOOLEAN, cause \in Causes : CreateSocketSettles(p, ok, cause)
    \/ SocketResume
    \/ SocketJoined
    \/ Return

Spec == Init /\ [][Next]_vars

\* The instance with its lifecycle: acquisitions, jobs and shutdown().
NextShutdown ==
    \/ \E config \in InitConfigs : KataxInit(config)
    \/ \E config \in ShutdownDatabaseConfigs : AcquireDatabase(config)
    \/ \E p \in Ids : DatabaseCreated(p)
    \/ DatabaseResume
    \/ \E config \in ShutdownSocketConfigs : AcquireSocket(config)
    \/ \E p \in Ids : SocketCreated(p)
    \/ SocketResume
    \/ Return
    \/ \E job \in JobNames : Cron(job)
    \/ Shutdown
    \/ \E ok \in BOOLEAN : BeforeShutdownDone(ok)
    \/ \E r \in Kinds \X Names, ok \in BOOLEAN : CloseSettles(r, ok)
    \/ DatabasesSettled
    \/ SocketsSettled
    \/ Unregistered
    \/ \E ok \in BOOLEAN : TransportsClosed(ok)
    \/ \E ok \in BOOLEAN : OnErrorDone(ok)
    \/ \E ok \in BOOLEAN : AfterShutdownDone(ok)
    \/ ShutdownReturn

SpecShutdown == Init /\ [][NextShutdown]_vars

\* The instance with its health check: resources are acquired and sockets
\* closed between checks, not during one.
NextHealth ==
    \/ KataxInit(NoInitConfig)
    \/ \E config \in HealthConfigs : AcquireBeforeCheck(config)
    \/ \E p \in Ids : DatabaseCreated(p)
    \/ \E p \in Ids : SocketCreated(p)
    \/ RegisterBeforeCheck
    \/ Return
    \/ \E name \in Names : CloseSocket(name)
    \/ \E cronOk \in BOOLEAN : HealthCheck(cronOk)
    \/ \E ok \in BOOLEAN, cronOk \in BOOLEAN : ProbeSettles(ok, cronOk)
    \/ HealthReturn

SpecHealth == Init /\ [][NextHealth]_vars

\* The health check beside acquisitions and a shutdown (no hooks, no
\* registry) that go on during its probe awaits.
NextHealthConcurrent ==
    \/ KataxInit(NoInitConfig)
    \/ \E config \in ShutdownDatabaseConfigs : AcquireDatabase(config)
    \/ \E p \in Ids : DatabaseCreated(p)
    \/ DatabaseResume
    \/ \E config \in ShutdownSocketConfigs : AcquireSocket(config)
    \/ \E p \in Ids : SocketCreated(p)
    \/ SocketResume
    \/ Return
    \/ Shutdown
    \/ \E r \in Kinds \X Names, ok \in BOOLEAN : CloseSettles(r, ok)
    \/ DatabasesSettled
    \/ SocketsSettled
    \/ \E ok \in BOOLEAN : TransportsClosed(ok)
    \/ ShutdownReturn
    \/ \E cronOk \in BOOLEAN : HealthCheck(cronOk)
    \/ \E ok \in BOOLEAN, cronOk \in BOOLEAN : ProbeSettles(ok, cronOk)
    \/ HealthReturn

SpecHealthConcurrent == Init /\ [][NextHealthConcurrent]_vars

\* A CacheService and the Redis backend that answers it.
NextCache ==
    \/ \E env \in Envs, arg \in PatternArgs : Clear(env, arg)
    \/ \E cursor \in Cursors, keys \in KeyPages : ScanReplies(cursor, keys)
    \/ DelReplies
    \/ \E cause \in RedisErrors : CommandFails(cause)
    \/ ClearReturn

\* ------------------------------------------------------------------ overlapping shutdown()
\* The shutdown() calls that are followed.
MaxShutdowns == 3
SignalCallers == 1..MaxCallers

\* (fault: close() without its guard)
CloseGuardNever(sig, r) == FALSE
\* `if (!this.initialized || !this.pool) return` of DatabaseService.close, and
\* `if (!this.initialized || !this.io) return` of WebSocketService.close: both
\* fields are cleared when the driver's close has succeeded.
CloseGuard(sig, r) == r \in sig.closed

\* The fan-out over one map: close() of each entry up to its await. A close
\* that passes its guard calls the driver's close.
FanOut(sig, c, kind) ==
    LET entries == {r \in Registered(databases, sockets) : r[1] = kind}
        called == {r \in entries : ~CloseGuard(sig, r)}
    IN [sig EXCEPT !.calls[c] = [pc |-> IF kind = "database" THEN "databases" ELSE "sockets",
                                 closing |-> called],
                   !.driverCloses = [r \in DOMAIN @ |-> IF r \in called THEN @[r] + 1 ELSE @[r]]]

\* shutdown() from the fan-out over the sockets on, with the databases map
\* `dbs`: the fan-out when a socket is registered, else stopAll() and the
\* await of logger.closeTransports() (no registry is configured).
SignalFromSockets(sig, c, dbs) ==
    /\ databases' = dbs
    /\ IF \E n \in Names : sockets[n] # 0
       THEN /\ signals' = FanOut(sig, c, "socket")
            /\ UNCHANGED <<initialized, sockets>>
       ELSE /\ signals' = [sig EXCEPT !.calls[c].pc = "transports"]
            /\ UNCHANGED <<initialized, sockets>>

\* shutdown() from the fan-out over the databases on.
SignalFromDatabases(sig, c) ==
    IF \E n \in Names : databases[n] # 0
    THEN /\ signals' = FanOut(sig, c, "database")
         /\ UNCHANGED <<initialized, databases, sockets>>
    ELSE SignalFromSockets(sig, c, databases)

\* shutdown() up to its first await: the return when the instance is not
\* initialized, the beforeShutdown hook, the fan-out.
SignalShutdown(c) ==
    /\ Ready
    /\ signals.calls[c].pc = "idle"
    /\ signals.made < MaxShutdowns
    /\ LET sig == [signals EXCEPT !.made = @ + 1]
       IN IF ~initialized
          THEN /\ signals' = [sig EXCEPT !.calls[c].pc = "returned"]
               /\ UNCHANGED <<initialized, databases, sockets>>
          ELSE IF hooks
          THEN /\ signals' = [sig EXCEPT !.calls[c].pc = "beforeShutdown",
                                         !.ran.beforeShutdown = @ + 1]
               /\ UNCHANGED <<initialized, databases, sockets>>
          ELSE SignalFromDatabases(sig, c)
    /\ UNCHANGED exceptSignals
    /\ Collect

\* The beforeShutdown hook of one call returns.
SignalBeforeShutdownDone(c) ==
    /\ signals.calls[c].pc = "beforeShutdown"
    /\ SignalFromDatabases(signals, c)
    /\ UNCHANGED exceptSignals
    /\ Collect

\* The driver's close of one resource, called by one shutdown(), settles.
SignalCloseSettles(c, r, ok) ==
    /\ r \in signals.calls[c].closing
    /\ ok \/ r[1] = "database"
    /\ signals' = [signals EXCEPT !.calls[c].closing = @ \ {r},
                                  !.closed = IF ok THEN @ \cup {r} ELSE @]
    /\ UNCHANGED <<regVars, exceptSignals>>

\* Promise.allSettled over the closes of one call resolves: the map is
\* cleared, and the call goes on.
SignalSettled(c) ==
    /\ signals.calls[c].pc \in {"databases", "sockets"}
    /\ signals.calls[c].closing = {}
    /\ IF signals.calls[c].pc = "databases"
       THEN SignalFromSockets(signals, c, EmptyMap)
       ELSE /\ sockets' = EmptyMap
            /\ signals' = [signals EXCEPT !.calls[c].pc = "transports"]
            /\ UNCHANGED <<initialized, databases>>
    /\ UNCHANGED exceptSignals
    /\ Collect

\* logger.closeTransports() of one call resolves: the afterShutdown hook, or
\* the end of the call.
SignalTransportsClosed(c) ==
    /\ signals.calls[c].pc = "transports"
    /\ IF hooks
       THEN /\ signals' = [signals EXCEPT !.calls[c].pc = "afterShutdown",
                                          !.ran.afterShutdown = @ + 1]
            /\ UNCHANGED initialized
       ELSE /\ signals' = [signals EXCEPT !.calls[c].pc = "returned"]
            /\ initialized' = FALSE
    /\ UNCHANGED <<databases, sockets, promises, exceptSignals>>

\* The afterShutdown hook of one call returns.
SignalAfterShutdownDone(c) ==
    /\ signals.calls[c].pc = "afterShutdown"
    /\ signals' = [signals EXCEPT !.calls[c].pc = "returned"]
    /\ initialized' = FALSE
    /\ UNCHANGED <<databases, sockets, promises, exceptSignals>>

\* The handler has the result of its shutdown().
SignalReturn(c) ==
    /\ signals.calls[c].pc = "returned"
    /\ signals' = [signals EXCEPT !.calls[c].pc = "idle"]
    /\ UNCHANGED <<regVars, exceptSignals>>

\* An instance that is initialized once and acquires its resources before the
\* first signal; then the shutdown() calls of its signal handlers.
NoSignalYet == signals.made = 0
NextSignals ==
    \/ \E config \in {config \in InitConfigs : ~config.registry} :
            NoSignalYet /\ KataxInit(config)
    \/ \E config \in LifecycleConfigs : NoSignalYet /\ AcquireBeforeCheck(config)
    \/ \E p \in Ids : DatabaseCreated(p)
    \/ \E p \in Ids : SocketCreated(p)
    \/ RegisterBeforeCheck
    \/ Return
    \/ \E c \in SignalCallers : SignalShutdown(c)
    \/ \E c \in SignalCallers : SignalBeforeShutdownDone(c)
    \/ \E c \in SignalCallers, r \in {"database", "socket"} \X Names, ok \in BOOLEAN :
            SignalCloseSettles(c, r, ok)
    \/ \E c \in SignalCallers : SignalSettled(c)
    \/ \E c \in SignalCallers : SignalTransportsClosed(c)
    \/ \E c \in SignalCallers : SignalAfterShutdownDone(c)
    \/ \E c \in SignalCallers : SignalReturn(c)

SpecSignals == Init /\ [][NextSignals]_vars

\* ------------------------------------------------------------------ overlapping init()
\* The init() calls that are followed.
MaxInits == 3

\* `if (this._initialized) return this`
InitGuard == initialized

\* init(config) up to its await: the return on an initialized instance;
\* otherwise a new ConfigService, LoggerService and CronService are stored
\* and cronService.init() is awaited.
InitCall(c, withRegistry) ==
    /\ inits.calls[c].pc = "idle"
    /\ inits.made < MaxInits
    /\ inits' =
           LET made == [inits EXCEPT !.made = @ + 1]
           IN IF InitGuard
              THEN [made EXCEPT !.calls[c] =
                       [pc |-> "returned", registry |-> withRegistry, seen |-> inits.services]]
              ELSE [made EXCEPT !.constructed = @ + 1,
                                !.services = inits.constructed + 1,
                                !.calls[c] =
                                    [pc |-> "cron", registry |-> withRegistry, seen |-> 0]]
    /\ UNCHANGED <<initialized, exceptInits>>

\* cronService.init() of one call resolves: `_initialized = true`; with a
\* registry in the config a RegistryService is made and its register() is
\* awaited, otherwise the call returns.
InitCallCronReady(c) ==
    /\ inits.calls[c].pc = "cron"
    /\ initialized' = TRUE
    /\ inits' =
           IF inits.calls[c].registry
           THEN [inits EXCEPT !.registries = @ + 1, !.registers = @ + 1,
                              !.calls[c].pc = "register"]
           ELSE [inits EXCEPT !.calls[c].pc = "returned",
                              !.calls[c].seen = inits.services]
    /\ UNCHANGED exceptInits

\* register() of one call settles: a failure is caught and logged.
InitCallRegistered(c, ok) ==
    /\ inits.calls[c].pc = "register"
    /\ inits' = [inits EXCEPT !.calls[c].pc = "returned",
                              !.calls[c].seen = inits.services]
    /\ UNCHANGED <<initialized, exceptInits>>

\* The caller has the instance.
InitCallReturn(c) ==
    /\ inits.calls[c].pc = "returned"
    /\ inits' = [inits EXCEPT !.calls[c] = NoInitCall]
    /\ UNCHANGED <<initialized, exceptInits>>

\* One instance and the callers of its init().
NextInits ==
    \/ \E c \in SignalCallers, withRegistry \in BOOLEAN : InitCall(c, withRegistry)
    \/ \E c \in SignalCallers : InitCallCronReady(c)
    \/ \E c \in SignalCallers, ok \in BOOLEAN : InitCallRegistered(c, ok)
    \/ \E c \in SignalCallers : InitCallReturn(c)

SpecInits == Init /\ [][NextInits]_vars

\* ------------------------------------------------------------------ startHeartbeat
\* `db.config?.type`
DatabaseTypes == {"redis", "postgresql"}
NotRedisHeartbeat == "startHeartbeat requires a Redis database connection"
\* The SET commands and the calls of stop() that are followed.
MaxWrites == 3

\* (fault: a failed SET clears the interval)
PresenceGivesUp(beat) == [beat EXCEPT !.timer = "null"]
\* The catch blocks of send(): they swallow the error.
PresenceCatch(beat) == beat

\* send() up to its await: nothing once stopped, the SET otherwise.
PresenceSend(beat) ==
    IF beat.stopped THEN beat
    ELSE [beat EXCEPT !.writes = @ + 1, !.awaited = @ + 1]

\* startHeartbeat(db, opts, socket): the throw for a database that is not
\* Redis; otherwise `void send()` and setInterval.
PresenceStart(type, socket) ==
    /\ ~presence.started
    /\ presence.raised = "none"
    /\ presence' =
           IF type # "redis" THEN [presence EXCEPT !.raised = NotRedisHeartbeat]
           ELSE [PresenceSend([presence EXCEPT !.started = TRUE, !.socket = socket])
                     EXCEPT !.timer = "Timeout"]
    /\ UNCHANGED exceptPresence

\* The interval elapses: `() => void send()`.
PresenceTick ==
    /\ presence.timer = "Timeout"
    /\ presence.writes < MaxWrites
    /\ presence' = PresenceSend(presence)
    /\ UNCHANGED exceptPresence

\* The SET settles: with a socket the event is emitted, and emit may throw;
\* a rejected SET and a throwing emit end in the catch blocks.
PresenceSetSettles(ok, emitted) ==
    /\ presence.awaited > 0
    /\ presence' =
           LET beat == [presence EXCEPT !.awaited = @ - 1]
           IN IF ~ok THEN PresenceCatch(beat)
              ELSE IF ~beat.socket THEN beat
              ELSE IF emitted THEN [beat EXCEPT !.emits = @ + 1]
              ELSE PresenceCatch(beat)
    /\ UNCHANGED exceptPresence

\* stop(): `stopped = true; clearInterval(timer)`.
PresenceStop ==
    /\ presence.started
    /\ presence.stops < MaxWrites
    /\ presence' = [presence EXCEPT !.stopped = TRUE, !.timer = "null", !.stops = @ + 1]
    /\ UNCHANGED exceptPresence

\* The presence heartbeat, its timer and its caller.
NextPresence ==
    \/ \E type \in DatabaseTypes, socket \in BOOLEAN : PresenceStart(type, socket)
    \/ PresenceTick
    \/ \E ok, emitted \in BOOLEAN : PresenceSetSettles(ok, emitted)
    \/ PresenceStop

SpecPresence == Init /\ [][NextPresence]_vars

\* The configs of a service that talks HTTP, over the retry counts.
HttpConfigs ==
    {[url |-> TRUE, handler |-> FALSE, callbacks |-> {}, retryAttempts |-> r,
      retryBaseDelayMs |-> <<>>] :
        r \in {<<>>, <<-1>>, <<0>>, <<2>>}}
\* The configs over url and handler, with at most one retry.
RegistryConfigs ==
    {[url |-> u, handler |-> c # {} \/ h, callbacks |-> c, retryAttempts |-> r,
      retryBaseDelayMs |-> <<>>] :
        u \in BOOLEAN, h \in BOOLEAN,
        c \in {{}, {"register"}, RegistryActions}, r \in {<<0>>, <<1>>}}

\* The configs of a registry over HTTP whose backoff is looked at.
BackoffConfigs ==
    {[url |-> TRUE, handler |-> FALSE, callbacks |-> {}, retryAttempts |-> r,
      retryBaseDelayMs |-> d] :
        r \in {<<>>, <<-1>>, <<0>>, <<3>>}, d \in {<<>>, <<-10>>, <<0>>, <<10>>}}

\* A RegistryService over HTTP whose register() is called.
NextBackoff ==
    \/ \E config \in BackoffConfigs : NewRegistryService(config)
    \/ Register
    \/ \E reply \in Replies : FetchSettles("register", reply)
    \/ Slept("register")
    \/ RegistryReturn("register")

SpecBackoff == Init /\ [][NextBackoff]_vars

\* A RegistryService over HTTP and its caller, one call at a time or two.
NextRetry ==
    \/ \E config \in HttpConfigs : NewRegistryService(config)
    \/ Register
    \/ Unregister
    \/ \E action \in RegistryActions, reply \in Replies : FetchSettles(action, reply)
    \/ \E action \in RegistryActions : Slept(action)
    \/ \E action \in RegistryActions : RegistryReturn(action)

SpecRetry == Init /\ [][NextRetry]_vars

\* A RegistryService, its timer and its callers.
NextRegistry ==
    \/ \E config \in RegistryConfigs : NewRegistryService(config)
    \/ Register
    \/ Tick
    \/ Unregister
    \/ \E action \in RegistryActions, ok \in BOOLEAN : HandlerSettles(action, ok)
    \/ \E action \in RegistryActions, reply \in Replies : FetchSettles(action, reply)
    \/ \E action \in RegistryActions : Slept(action)
    \/ \E action \in RegistryActions : RegistryReturn(action)

SpecRegistry == Init /\ [][NextRegistry]_vars

\* A CronService and its callers.
NextCron ==
    \/ \E job \in CronJobConfigs, outcome \in PredicateOutcomes : AddJob(job, outcome)
    \/ \E name \in CronNames, outcome \in PredicateOutcomes : StartJob(name, outcome)
    \/ \E outcomes \in [CronNames -> PredicateOutcomes] : GetJobs(outcomes)
    \/ \E first, second \in [CronNames -> PredicateOutcomes] : CronInit(first, second)
    \/ \E ok \in BOOLEAN, outcomes \in [CronNames -> PredicateOutcomes] :
            CronTaskSettles(ok, outcomes)
    \/ CronReturn

SpecCron == Init /\ [][NextCron]_vars

\* The configs of jobs that can be started.
StartableConfigs ==
    {job \in CronJobConfigs :
        Validate(job.schedule) /\ job.enabled \in {"undefined", "function"}}

\* A CronService, the callers that add, start, stop and remove its jobs, and
\* its init().
NextCronControl ==
    \/ \E job \in StartableConfigs, outcome \in {"true", "false"} : AddJob(job, outcome)
    \/ \E name \in CronNames, outcome \in {"true", "false"} : StartJob(name, outcome)
    \/ \E name \in CronNames : StopJob(name)
    \/ \E name \in CronNames : RemoveJob(name)
    \/ CronStopAll
    \/ \E first, second \in [CronNames -> {"true", "false"}] : CronInit(first, second)
    \/ \E ok \in BOOLEAN, outcomes \in [CronNames -> {"true", "false"}] :
            CronTaskSettles(ok, outcomes)
    \/ CronReturn

SpecCronControl == Init /\ [][NextCronControl]_vars

\* A CronService with one job, its init() and the firings of its schedule.
NextCronFiring ==
    \/ \E job \in {job \in StartableConfigs : job.name = "j1"},
          outcome \in {"true", "false"} : AddJob(job, outcome)
    \/ \E outcome \in {"true", "false"} : StartJob("j1", outcome)
    \/ StopJob("j1")
    \/ RemoveJob("j1")
    \/ \E first, second \in [CronNames -> {"true", "false"}] : CronInit(first, second)
    \/ \E ok \in BOOLEAN, outcomes \in [CronNames -> {"true", "false"}] :
            CronTaskSettles(ok, outcomes)
    \/ \E predicate \in PredicateOutcomes, throws \in BOOLEAN : Fire("j1", predicate, throws)
    \/ \E ok \in BOOLEAN : FiringSettles("j1", ok)
    \/ CronReturn

SpecCronFiring == Init /\ [][NextCronFiring]_vars

\* A DatabaseService and a WebSocketService that are opened and closed.
NextRelease ==
    \/ \E kind \in Kinds : ServiceInit(kind)
    \/ \E ok \in BOOLEAN : ServiceInitSettles(ok)
    \/ \E kind \in Kinds : Close(kind)
    \/ \E kind \in Kinds, ok \in BOOLEAN : DriverCloseSettles(kind, ok)

SpecRelease == Init /\ [][NextRelease]_vars

\* KataxInitConfig with hooks or without, and with a registry config or none.
KataxRegistryConfigs ==
    [hooks : BOOLEAN, registry : {<<>>} \cup {<<config>> : config \in RegistryConfigs}]

\* An instance with a registry: init(), then shutdown(), then init() again.
NextKataxRegistry ==
    \/ \E config \in KataxRegistryConfigs : InitBegins(config)
    \/ InitCronReady
    \/ \E action \in {"register", "unregister"}, ok \in BOOLEAN : HandlerSettles(action, ok)
    \/ \E action \in {"register", "unregister"}, reply \in Replies :
            FetchSettles(action, reply)
    \/ \E action \in {"register", "unregister"} : Slept(action)
    \/ InitRegistered
    \/ ShutdownBegins
    \/ ShutdownUnregistered
    \/ LifecycleReturn

SpecKataxRegistry == Init /\ [][NextKataxRegistry]_vars

\* The instance from init() to shutdown() and on to a new init(), with its
\* accessors, acquisitions and health checks.
NextLifecycle ==
    \/ \E config \in {config \in InitConfigs : ~config.hooks} : KataxInit(config)
    \/ \E config \in LifecycleConfigs : AcquireBeforeCheck(config)
    \/ \E p \in Ids : DatabaseCreated(p)
    \/ \E p \in Ids : SocketCreated(p)
    \/ RegisterBeforeCheck
    \/ Return
    \/ \E config \in AccessConfigs : Access(config)
    \/ \E cronOk \in BOOLEAN : HealthCheck(cronOk)
    \/ \E ok \in BOOLEAN, cronOk \in BOOLEAN : ProbeSettles(ok, cronOk)
    \/ HealthReturn
    \/ Shutdown
    \/ \E r \in Kinds \X Names, ok \in BOOLEAN : CloseSettles(r, ok)
    \/ DatabasesSettled
    \/ SocketsSettled
    \/ Unregistered
    \/ TransportsClosed(TRUE)
    \/ ShutdownReturn

SpecLifecycle == Init /\ [][NextLifecycle]_vars

SpecCache == Init /\ [][NextCache]_vars
\* The backend answers every command.
SpecCacheLive ==
    /\ SpecCache
    /\ WF_vars(\E cursor \in Cursors, keys \in KeyPages : ScanReplies(cursor, keys))
    /\ WF_vars(DelReplies)

\* ------------------------------------------------------------------ registry properties
ResolvedMap(kind) == IF kind = "database" THEN databases ELSE sockets
PendingMap(kind) == IF kind = "database" THEN pendingDatabases ELSE pendingSockets

\* The calls that suspended in this step.
Issued == calls' \ calls
IsFor(config, kind, n) == config.kind = kind /\ config.name = n
\* Construction p was started in this step.
Started(p) == promises[p].state = "unused" /\ promises'[p].state = "pending"
\* The returned call had waited for a construction that failed.
ConstructionFailed ==
    /\ returned.awaited # 0
    /\ promises[returned.awaited].state = "rejected"

\* C1: single-flight. While a construction for a name is in flight, a further
\* call for that name starts no construction and waits for the one in flight;
\* there is never more than one construction in flight per name; and every
\* caller that waited for a construction that succeeded receives the handle of
\* that construction, the same for all of them.
C1_JoinsTheOneInFlight ==
    \A kind \in Kinds, n \in Names :
        PendingMap(kind)[n] # 0 =>
            /\ \A call \in Issued :
                   IsFor(call.config, kind, n) =>
                       call.at = "awaitPending" /\ call.promise = PendingMap(kind)[n]
            /\ \A p \in Ids :
                   Started(p) => ~(promises'[p].kind = kind /\ promises'[p].name = n)
C1_OneInFlight ==
    \A p, q \in Ids :
        (/\ promises[p].state = "pending" /\ promises[q].state = "pending"
         /\ promises[p].kind = promises[q].kind
         /\ promises[p].name = promises[q].name) => p = q
C1_SameHandle ==
    (returned.path \in {"created", "joined"} /\ returned.result.tag = "handle") =>
        /\ returned.result.id = returned.awaited
        /\ promises[returned.awaited].state = "fulfilled"
        /\ IsFor(returned.config, promises[returned.awaited].kind,
                 promises[returned.awaited].name)
C1_SingleFlight ==
    [][C1_JoinsTheOneInFlight /\ C1_OneInFlight' /\ C1_SameHandle']_vars
\* A joiner has received the handle that the initiator registered.
C1_Witness ==
    /\ returned.path = "joined"
    /\ returned.result.tag = "handle"
    /\ ResolvedMap(returned.config.kind)[returned.config.name] = returned.result.id

\* C2: once a name is resolved, a call with that name returns the registered
\* handle, suspends nowhere and starts no construction, whatever its config
\* says; the maps, the handle and the config the handle was built from stay as
\* they were.
C2_Step ==
    \A kind \in Kinds, n \in Names :
        ResolvedMap(kind)[n] # 0 =>
            /\ \A call \in Issued : ~IsFor(call.config, kind, n)
            /\ \A p \in Ids :
                   Started(p) => ~(promises'[p].kind = kind /\ promises'[p].name = n)
            /\ (returned'.path = "existing" /\ IsFor(returned'.config, kind, n)) =>
                   /\ returned'.result = Handle(ResolvedMap(kind)[n])
                   /\ UNCHANGED mapVars
                   /\ promises'[ResolvedMap(kind)[n]] = promises[ResolvedMap(kind)[n]]
C2_ExistingHandleReturned == [][C2_Step]_vars
\* A call for a resolved database got the existing handle although it asked
\* for another type than the handle was built with.
C2_Witness ==
    /\ returned.path = "existing"
    /\ returned.config.kind = "database"
    /\ returned.result = Handle(databases[returned.config.name])
    /\ promises[returned.result.id].type # returned.config.type

\* C3: no name is pending and resolved at once, and a name is pending exactly
\* while the call that started its construction is suspended on it.
C3_PendingResolvedDisjoint ==
    \A kind \in Kinds, n \in Names :
        /\ ~(PendingMap(kind)[n] # 0 /\ ResolvedMap(kind)[n] # 0)
        /\ PendingMap(kind)[n] # 0 =>
               \E call \in calls :
                   /\ IsFor(call.config, kind, n)
                   /\ call.at = "awaitInit"
                   /\ call.promise = PendingMap(kind)[n]
        /\ \A call \in calls :
               (IsFor(call.config, kind, n) /\ call.at = "awaitInit") =>
                   PendingMap(kind)[n] = call.promise
\* A construction has succeeded and its initiator has not resumed yet: the
\* name is still pending and not yet resolved.
C3_Witness ==
    \E kind \in Kinds, n \in Names :
        /\ PendingMap(kind)[n] # 0
        /\ promises[PendingMap(kind)[n]].state = "fulfilled"
        /\ \E m \in Names : ResolvedMap(kind)[m] # 0

\* C4: when the initiator resumes from a failed construction, required or
\* not, the name is left in neither map; and a call for a name that is in
\* neither map starts a fresh construction.
C4_Step ==
    \A kind \in Kinds, n \in Names :
        /\ (/\ returned'.path = "created"
            /\ IsFor(returned'.config, kind, n)
            /\ returned'.result.tag # "handle") =>
               PendingMap(kind)'[n] = 0 /\ ResolvedMap(kind)'[n] = 0
        /\ (PendingMap(kind)[n] = 0 /\ ResolvedMap(kind)[n] = 0) =>
               \A call \in Issued :
                   IsFor(call.config, kind, n) =>
                       /\ call.at = "awaitInit"
                       /\ Started(call.promise)
                       /\ PendingMap(kind)'[n] = call.promise
C4_FailureNotCached == [][C4_Step]_vars
\* A construction for a name failed, a caller that had joined it has not
\* resumed yet, and a second construction for the same name is in flight.
C4_Witness ==
    \E call \in calls :
        /\ call.at = "awaitPending"
        /\ promises[call.promise].state = "rejected"
        /\ PendingMap(call.config.kind)[call.config.name] # 0
        /\ PendingMap(call.config.kind)[call.config.name] # call.promise

\* C5 (as claimed): every database() call with required === false whose
\* construction failed resolves to null, the initiator and the joiners alike.
C5_OptionalFailureIsNull ==
    (/\ ConstructionFailed
     /\ returned.config.kind = "database"
     /\ returned.config.required = "false") => returned.result = Null

\* C6 (as claimed): every call that waited for a failed construction and did
\* not mark the resource optional gets the error
\* "<kind> '<name>' initialization failed: <cause message>", and the name is
\* not registered.
C6_WrappedError(kind, name, errorMessage) ==
    IF kind = "database" THEN DatabaseInitError(name, errorMessage)
    ELSE WebSocketInitError(name, errorMessage)
C6_RequiredFailureIsWrapped ==
    (ConstructionFailed /\ returned.config.required # "false") =>
        /\ returned.result =
               Raised(C6_WrappedError(returned.config.kind, returned.config.name,
                                      promises[returned.awaited].message))
        /\ ResolvedMap(returned.config.kind)[returned.config.name] = 0

\* ------------------------------------------------------------------ shutdown properties
\* The shutdown() call has returned to its caller or raised.
ShutdownEnded == shutdown.pc \in {"returned", "raised"}
\* The call got past the beforeShutdown hook: it started a close or stopped
\* the cron jobs.
FanOutStarted == shutdown.attempted # {} \/ shutdown.stopped
\* The entries of `errors` that stand for a failed close of a resource.
CloseErrors == SelectSeq(shutdown.errors, LAMBDA service : service \in {"database", "websocket"})

\* C7 (as claimed): a shutdown in which closes failed has still attempted the
\* close of every database and socket that was registered when it was called,
\* has raised nothing, and has recorded as many close failures as closes failed.
C7_ShutdownSettlesAll ==
    (ShutdownEnded /\ shutdown.failed > 0) =>
        /\ shutdown.snapshot \subseteq shutdown.attempted
        /\ shutdown.pc = "returned"
        /\ Len(CloseErrors) = shutdown.failed

\* C8 (as claimed): when a shutdown() call returns or raises, both resolved
\* maps are empty and no job holds a timer.
C8_EmptyAfterShutdown ==
    ShutdownEnded => Registered(databases, sockets) = {} /\ timers = {}

\* C9 (as claimed): with hooks configured, beforeShutdown has run once before
\* the first close starts and before the jobs are stopped; afterShutdown runs
\* only when every close has settled and the jobs are stopped; and a shutdown
\* that got past beforeShutdown has run afterShutdown once by the time it ends,
\* whatever failed in between.
C9_HooksRunOnce ==
    /\ (hooks /\ FanOutStarted) => shutdown.ran.beforeShutdown = 1
    /\ shutdown.ran.afterShutdown = 1 => shutdown.closing = {} /\ shutdown.stopped
    /\ (hooks /\ FanOutStarted /\ ShutdownEnded) => shutdown.ran.afterShutdown = 1

\* ------------------------------------------------------------------ health properties
HealthReturned == health.pc = "returned"
DatabaseProbes == {health.result.databases[n] : n \in Names} \ {"absent"}
AllProbes == DatabaseProbes \cup ({health.result.sockets[n] : n \in Names} \ {"absent"})
SomethingFailed == "false" \in AllProbes \/ ~health.result.cron
\* The result has a key for every registered resource and for no other name,
\* and a database probe that threw is stored as false.
ResultMatchesRegistry ==
    \A n \in Names :
        /\ health.result.databases[n] # "absent" <=> HasDatabase(n)
        /\ health.result.sockets[n] # "absent" <=> HasSocket(n)
        /\ n \in health.rejected <=> health.result.databases[n] = "false"
        /\ HasSocket(n) =>
               health.result.sockets[n] = AsString(promises[sockets[n]].open)

\* C10 (as claimed): unhealthy iff some resource, database or socket, is
\* registered and every probe is false; degraded iff some but not all probes
\* are false or the cron enumeration fails; healthy otherwise.
C10_AggregateOverAllProbes ==
    HealthReturned =>
        health.result.status =
            IF AllProbes = {"false"} THEN "unhealthy"
            ELSE IF SomethingFailed THEN "degraded"
            ELSE "healthy"

\* C10 (amended): unhealthy iff at least one database is registered and every
\* database probe is false, whatever the sockets report; degraded iff not
\* unhealthy and some database or socket probe is false or the cron
\* enumeration fails; healthy otherwise, which includes the empty resource
\* set. A database probe that throws counts as false, a socket probe is false
\* when the socket has no server.
C10_AggregateOverDatabases ==
    HealthReturned =>
        /\ ResultMatchesRegistry
        /\ health.result.status =
               IF DatabaseProbes = {"false"} THEN "unhealthy"
               ELSE IF SomethingFailed THEN "degraded"
               ELSE "healthy"
\* The check of an instance whose only database fails its probe while a
\* socket is up reports unhealthy.
C10_Witness ==
    /\ HealthReturned
    /\ DatabaseProbes = {"false"}
    /\ "true" \in AllProbes
    /\ health.result.status = "unhealthy"

\* C11 (as claimed): the status a health check returns is the aggregate of
\* the probe outcomes in the record it returns, also when acquisitions and a
\* shutdown change the maps while the check awaits a probe.
C11_StatusAgreesWithRecord ==
    HealthReturned =>
        health.result.status =
            IF \E n \in Names : health.result.databases[n] # "absent"
                  /\ \A m \in Names : health.result.databases[m] # "true"
            THEN "unhealthy"
            ELSE IF SomethingFailed THEN "degraded"
            ELSE "healthy"

\* ------------------------------------------------------------------ CacheService.clear(): properties
ClearEnded == cache.pc \in {"returned", "raised"}
ClearRunning == cache.pc \in {"scan", "del"}
\* NODE_ENV names production, in any letter case.
FlaggedProduction == cache.env \in {"production", "Production"}
ScansSent == SelectSeq(cache.commands, LAMBDA command : command[1] = "SCAN")
DelsSent == SelectSeq(cache.commands, LAMBDA command : command[1] = "DEL")
NonEmptyPages == SelectSeq(cache.pages, LAMBDA page : page[2] # <<>>)

\* C12: in production clear("*"), and clear() with the default pattern, raise
\* the safety error and send no command to the backend; clear(p) for another
\* pattern in production, and clear("*") outside production, start the scan
\* loop with `SCAN 0 MATCH <pattern> COUNT 500`.
C12_ProductionGuard ==
    cache.pc # "idle" =>
        IF FlaggedProduction /\ cache.pattern = "*"
        THEN /\ cache.pc = "raised"
             /\ cache.result[Len(cache.result)] = SafetyMessage
             /\ cache.commands = <<>>
        ELSE /\ Len(cache.commands) >= 1
             /\ cache.commands[1] = <<"SCAN", "0", "MATCH", cache.pattern, "COUNT", "500">>
             /\ cache.result # <<"Cache clear failed: ", SafetyMessage>>
\* C12 (witness): clear("*") was refused in production.
C12_Witness ==
    /\ cache.pc = "raised"
    /\ cache.env = "production"
    /\ cache.pattern = "*"
    /\ cache.commands = <<>>

\* The scan loop of clear(), as seen from the commands and the replies: it
\* has ended exactly when a reply carried cursor "0"; every reply with another
\* cursor, with keys or without, is followed by one more SCAN; the i-th SCAN
\* carries the cursor of reply i-1, the first one "0".
ScanLoopFollowsCursor ==
    /\ \A i \in 1..Len(cache.pages) : cache.pages[i][1] = "0" => i = Len(cache.pages)
    /\ cache.pc = "returned" =>
           Len(cache.pages) > 0 /\ cache.pages[Len(cache.pages)][1] = "0"
    /\ (Len(cache.pages) > 0 /\ cache.pages[Len(cache.pages)][1] = "0") =>
           cache.pc \in {"del", "returned", "raised"}
    /\ (cache.pc = "del" /\ cache.pages[Len(cache.pages)][1] = "0") =>
           Len(ScansSent) = Len(cache.pages)
    /\ (cache.pc # "raised" /\ Len(cache.pages) > 0
            /\ cache.pages[Len(cache.pages)][1] # "0") => ClearRunning
    /\ cache.pc = "scan" => Len(ScansSent) = Len(cache.pages) + 1
    /\ \A i \in 1..Len(ScansSent) :
           ScansSent[i][2] = IF i = 1 THEN "0" ELSE cache.pages[i - 1][1]
\* C13: clear() ends its scan loop exactly when a SCAN reply carries cursor
\* "0", an empty page with another cursor does not end it, each SCAN carries
\* the cursor of the previous reply, and on a backend that answers and ends
\* its scan a call that is running eventually ends.
C13_ScanEndsAtCursorZero ==
    /\ []ScanLoopFollowsCursor
    /\ ClearRunning ~> ClearEnded
\* C13 (witness): clear() returned after a scan that had an empty page in
\* the middle.
C13_Witness ==
    /\ cache.pc = "returned"
    /\ Len(cache.pages) = 3
    /\ cache.pages[2] = <<"2", <<>>>>
    /\ cache.pages[3][1] = "0"

RECURSIVE KeyCount(_)
KeyCount(pages) ==
    IF pages = <<>> THEN 0 ELSE Len(Head(pages)[2]) + KeyCount(Tail(pages))
\* The commands the pages call for, the scan starting at `cursor`.
RECURSIVE WireSequence(_, _, _)
WireSequence(pattern, cursor, pages) ==
    IF pages = <<>> THEN <<>>
    ELSE <<<<"SCAN", cursor, "MATCH", pattern, "COUNT", "500">>>>
         \o (IF Head(pages)[2] # <<>> THEN <<(<<"DEL">> \o Head(pages)[2])>> ELSE <<>>)
         \o WireSequence(pattern, Head(pages)[1], Tail(pages))
\* C14: a clear() that returns gives the sum of the key counts of its pages,
\* and has sent one DEL per page that has keys, with that page's keys, after
\* the page's SCAN and before the next one, and no DEL for an empty page.
C14_CountAndDeletesFollowPages ==
    cache.pc = "returned" =>
        /\ cache.result = <<KeyCount(cache.pages)>>
        /\ cache.commands = WireSequence(cache.pattern, "0", cache.pages)
        /\ Len(DelsSent) = Len(NonEmptyPages)
\* C14 (witness): the pages of the service's test, ("1", [k2, k3]) then
\* ("0", [k1]), for which clear("user:*") returns 3 after two DELs.
C14_Witness ==
    /\ cache.pc = "returned"
    /\ cache.pattern = "user:*"
    /\ cache.pages = << <<"1", <<"k2", "k3">> >>, <<"0", <<"k1">> >> >>
    /\ cache.result = <<3>>
    /\ DelsSent = << <<"DEL", "k2", "k3">>, <<"DEL", "k1">> >>

\* ------------------------------------------------------------------ RegistryService: properties
RetryAttemptsGiven ==
    IF registryService.config.retryAttempts = <<>> THEN 2
    ELSE registryService.config.retryAttempts[1]
\* What a call over HTTP shows when at most `most` attempts are allowed: no
\* more fetches than that, none after a reply that is ok, a register() that
\* returns has an ok reply last, and one that raises has made every attempt,
\* all failed, and raises the error of the last.
RetryWithin(most) ==
    \A action \in RegistryActions :
        LET call == registryCalls[action]
            n == Len(call.outcomes)
        IN
        /\ n <= most
        /\ \A i \in 1..(n - 1) : call.outcomes[i] # "200"
        /\ call.pc = "sleep" => n < most /\ call.outcomes[n] # "200"
        /\ (action = "register" /\ call.pc = "returned") => n >= 1 /\ call.outcomes[n] = "200"
        /\ (action = "register" /\ call.pc = "raised") =>
               /\ n = most
               /\ call.outcomes[n] # "200"
               /\ call.result = IF call.outcomes[n] = "TypeError" THEN <<"fetch failed">>
                                ELSE <<"HTTP ", call.outcomes[n]>>
        /\ (action = "unregister" /\ call.pc = "returned" /\ n >= 1) =>
               call.outcomes[n] = "200" \/ n = most
\* C15 (as claimed): a registry call over HTTP makes at most retryAttempts + 1
\* attempts, stops at the first ok reply, and raises the last attempt's error
\* when every attempt failed.
C15_RetryBoundAsClaimed == RetryWithin(RetryAttemptsGiven + 1)
\* C15 (amended): the bound is max(0, retryAttempts) + 1 attempts, with
\* retryAttempts 2 when the config leaves it out; the call stops at the first
\* ok reply and raises the last attempt's error when every attempt failed.
C15_RetryBound ==
    RetryWithin((IF RetryAttemptsGiven > 0 THEN RetryAttemptsGiven ELSE 0) + 1)
\* C15 (witness): with retryAttempts = 2, register() returned after two
\* failed attempts and a third that succeeded.
C15_Witness ==
    /\ registryService.config.retryAttempts = <<2>>
    /\ registryCalls["register"].pc = "returned"
    /\ registryCalls["register"].outcomes = <<"503", "TypeError", "200">>
\* C15 (witness of the other case): with retryAttempts = 0, register() raised
\* after one attempt.
C15_WitnessNoRetry ==
    /\ registryService.config.retryAttempts = <<0>>
    /\ registryCalls["register"].pc = "raised"
    /\ registryCalls["register"].outcomes = <<"503">>

RegisterCall == registryCalls["register"]
\* A step in which a register() call succeeds, and one in which it fails.
RegisterSucceeds == RegisterCall.pc # "returned" /\ RegisterCall'.pc = "returned"
RegisterFails == RegisterCall.pc # "raised" /\ RegisterCall'.pc = "raised"
\* C16 (as claimed): a register() that succeeds leaves the client registered
\* with the heartbeat timer active; one that fails raises the error, and
\* leaves the client unregistered and without a heartbeat timer.
C16_RegisterAsClaimed ==
    [][/\ RegisterSucceeds =>
            registryService'.registered /\ registryService'.heartbeatTimer = "Timeout"
       /\ RegisterFails =>
            /\ RegisterCall'.result # <<>>
            /\ ~registryService'.registered
            /\ registryService'.heartbeatTimer = "null"]_vars
\* C16 (amended): a register() that succeeds leaves the client registered,
\* with the heartbeat timer active exactly when the client has a url or a
\* heartbeat callback; one that fails raises the error and changes neither
\* registered nor the timer, so it starts no heartbeat and a client that was
\* not registered stays so.
C16_Register ==
    [][/\ RegisterSucceeds =>
            /\ registryService'.registered
            /\ (registryService'.heartbeatTimer = "Timeout") <=>
                   (registryService.config.url
                        \/ "heartbeat" \in registryService.config.callbacks)
       /\ RegisterFails =>
            /\ RegisterCall'.result # <<>>
            /\ registryService' = registryService]_vars
\* C16 (witness): register() succeeded on a client that has a url: it is
\* registered and its timer is active.
C16_Witness ==
    /\ RegisterCall.pc = "returned"
    /\ registryService.config.url
    /\ registryService.registered
    /\ registryService.heartbeatTimer = "Timeout"
\* C16 (witness of the other cases): register() succeeded through a handler
\* that has no heartbeat callback, on a client without url, and no timer runs.
C16_WitnessNoTarget ==
    /\ RegisterCall.pc = "returned"
    /\ ~registryService.config.url
    /\ registryService.registered
    /\ registryService.heartbeatTimer = "null"

HeartbeatCall == registryCalls["heartbeat"]
\* A step in which a sendHeartbeat() ends after its call to the registry
\* failed: its catch block has the error.
HeartbeatFails ==
    /\ HeartbeatCall.pc \notin {"returned", "raised"}
    /\ HeartbeatCall'.pc \in {"returned", "raised"}
    /\ HeartbeatCall'.result # <<>>
\* C17: a heartbeat that fails, by a rejected fetch, a reply that is not ok
\* on the last attempt, a callback that rejects or a missing target, raises
\* nothing and changes neither registered nor the heartbeat timer.
C17_FailedHeartbeatIsSwallowed ==
    [][HeartbeatFails =>
          /\ HeartbeatCall'.pc = "returned"
          /\ registryService'.registered = registryService.registered
          /\ registryService'.heartbeatTimer = registryService.heartbeatTimer]_vars
\* C17 (witness): a heartbeat failed after its retry, and the client is still
\* registered with its timer active.
C17_Witness ==
    /\ HeartbeatCall.pc = "returned"
    /\ HeartbeatCall.outcomes = <<"TypeError", "503">>
    /\ HeartbeatCall.result = <<"HTTP ", "503">>
    /\ registryService.registered
    /\ registryService.heartbeatTimer = "Timeout"

UnregisterCall == registryCalls["unregister"]
UnregisterStarts == UnregisterCall.pc = "idle" /\ UnregisterCall'.pc # "idle"
UnregisterReturns == UnregisterCall.pc # "returned" /\ UnregisterCall'.pc = "returned"
\* unregister() clears the timer in its first step, and never raises.
UnregisterStopsFirst ==
    [][/\ UnregisterStarts => registryService'.heartbeatTimer = "null"
       /\ UnregisterCall'.pc # "raised"]_vars
\* When unregister() returns the client is not registered.
UnregisterLeavesUnregistered ==
    [][UnregisterReturns => ~registryService'.registered]_vars
\* C18 (as claimed): unregister() first stops the heartbeat timer, in every
\* state; it never raises; when it returns the client is unregistered and has
\* no heartbeat timer.
C18_UnregisterAsClaimed ==
    [][/\ UnregisterStarts => registryService'.heartbeatTimer = "null"
       /\ UnregisterCall'.pc # "raised"
       /\ UnregisterReturns =>
            /\ ~registryService'.registered
            /\ registryService'.heartbeatTimer = "null"]_vars

\* ------------------------------------------------------------------ CronService: properties
\* A step in which a call of the method `op` ends.
CronCallEnds(op) == cronCall.op = "none" /\ cronCall'.op = op
\* What the enable predicate of `config` is worth when a called function
\* gave `outcome`: undefined is true, a boolean itself, a function its
\* result, and false when it throws.
PredicateValue(config, outcome) ==
    CASE config.enabled = "undefined" -> "true"
      [] config.enabled \in {"true", "false"} -> config.enabled
      [] config.enabled = "function" -> IF outcome = "true" THEN "true" ELSE "false"

\* C19: addJob raises when the name is registered already or the schedule is
\* not valid, and then changes nothing in the service; otherwise it returns
\* with the job appended and every other job as it was, and the new job is
\* running exactly when the service was initialized and the job's predicate
\* evaluated to true.
C19_AddJob ==
    [][CronCallEnds("addJob") =>
        LET job == cronCall'.job
            before == Len(cronService.jobs)
            duplicate == \E i \in 1..before : cronService.jobs[i].config.name = job.name
            invalid == job.schedule # "* * * * *"
            start == cronService.initialized
                        /\ PredicateValue(job, cronCall'.evaluated[job.name]) = "true"
        IN
        IF duplicate \/ invalid
        THEN cronCall'.outcome = "raised" /\ cronService' = cronService
        ELSE /\ cronCall'.outcome = "returned"
             /\ cronService'.initialized = cronService.initialized
             /\ Len(cronService'.jobs) = before + 1
             /\ SubSeq(cronService'.jobs, 1, before) = cronService.jobs
             /\ cronService'.jobs[before + 1] =
                    [config |-> job,
                     task |-> IF start THEN "ScheduledTask" ELSE "null",
                     running |-> start,
                     live |-> IF start THEN 1 ELSE 0]]_vars
\* C19 (witness): addJob on an initialized service, with a predicate that
\* gave true, has returned and the job is running.
C19_Witness ==
    /\ cronCall.op = "addJob"
    /\ cronCall.outcome = "returned"
    /\ cronCall.job.enabled = "function"
    /\ cronCall.evaluated[cronCall.job.name] = "true"
    /\ cronService.initialized
    /\ cronService.jobs[Len(cronService.jobs)].config = cronCall.job
    /\ cronService.jobs[Len(cronService.jobs)].running
\* C19 (witness of the refusals): addJob raised for a name that is registered.
C19_WitnessDuplicate ==
    /\ cronCall.op = "addJob"
    /\ cronCall.outcome = "raised"
    /\ cronCall.job.schedule = "* * * * *"
    /\ \E i \in 1..Len(cronService.jobs) :
           cronService.jobs[i].config.name = cronCall.job.name /\ cronService.jobs[i].running

\* What the first loop of an init() that starts in this step evaluated.
InitStarts ==
    /\ cronCall.op = "none"
    /\ cronInit.pc = "idle"
    /\ cronInit'.pc = "task" \/ cronCall'.op = "init"
InitEvaluated == IF cronInit'.pc = "task" THEN cronInit'.evaluated ELSE cronCall'.evaluated
\* No error of a predicate escapes, and getJobs() reports each predicate's value.
PredicateErrorsStayInside ==
    /\ (cronCall.op \in {"addJob", "startJob", "init", "getJobs"}
           /\ \E name \in CronNames : cronCall.evaluated[name] = "throws")
          => cronCall.outcome = "returned"
    /\ cronCall.op \in {"init", "getJobs"} => cronCall.outcome = "returned"
    /\ cronCall.op = "getJobs" =>
          /\ Len(cronCall.listing) = Len(cronService.jobs)
          /\ \A i \in 1..Len(cronService.jobs) :
                cronCall.listing[i].enabled =
                    PredicateValue(cronService.jobs[i].config,
                                   cronCall.evaluated[cronService.jobs[i].config.name])
\* addJob, startJob and init start a job only when its predicate's value is true.
PredicateDecidesStart ==
    /\ CronCallEnds("addJob") /\ cronCall'.outcome = "returned" =>
          (cronService'.jobs[Len(cronService'.jobs)].running =>
              PredicateValue(cronCall'.job, cronCall'.evaluated[cronCall'.job.name]) = "true")
    /\ CronCallEnds("startJob") =>
          \A i \in 1..Len(cronService.jobs) :
              (cronService'.jobs[i] # cronService.jobs[i]) <=>
                  /\ cronService.jobs[i].config.name = cronCall'.job.name
                  /\ ~cronService.jobs[i].running
                  /\ PredicateValue(cronService.jobs[i].config,
                                    cronCall'.evaluated[cronCall'.job.name]) = "true"
    /\ InitStarts =>
          \A i \in 1..Len(cronService.jobs) :
              (cronService'.jobs[i] # cronService.jobs[i]) <=>
                  /\ ~cronService.initialized
                  /\ PredicateValue(cronService.jobs[i].config,
                                    InitEvaluated[cronService.jobs[i].config.name]) = "true"
\* C20: the enable predicate is true when undefined, itself when a boolean,
\* its result when a function, and false when the function throws; the
\* error of a predicate never reaches the caller of addJob, startJob, init
\* or getJobs.
C20_EnablePredicate ==
    /\ []PredicateErrorsStayInside
    /\ [][PredicateDecidesStart]_vars
\* C20 (witness): getJobs() returned, and lists as not enabled a job whose
\* predicate threw.
C20_Witness ==
    /\ cronCall.op = "getJobs"
    /\ cronCall.outcome = "returned"
    /\ \E i \in 1..Len(cronCall.listing) :
           /\ cronCall.evaluated[cronCall.listing[i].name] = "throws"
           /\ cronCall.listing[i].enabled = "false"
\* C20 (witness for init): init() returned after the predicate of a job
\* threw in its first loop, and the job is not running.
C20_WitnessInit ==
    /\ cronCall.op = "init"
    /\ cronCall.outcome = "returned"
    /\ cronService.initialized
    /\ \E i \in 1..Len(cronService.jobs) :
           /\ cronCall.evaluated[cronService.jobs[i].config.name] = "throws"
           /\ ~cronService.jobs[i].running

\* ------------------------------------------------------------------ CronService: firings, stops and removals
\* A step in which a scheduled firing of the name begins or ends.
FiringStep(name) ==
    \/ cronTasks'[name].runs = cronTasks[name].runs + 1
    \/ cronTasks[name].firing /\ ~cronTasks'[name].firing
\* C21: the error of a task that throws or rejects in a scheduled firing does
\* not leave the firing; the firing changes nothing in the service, so the
\* job stays running with its scheduled task, which goes on firing.
C21_FiringIsolated ==
    /\ [](\A name \in CronNames : ~cronTasks[name].unhandled)
    /\ [][\A name \in CronNames :
             (FiringStep(name) /\ cronTasks'[name].failed) =>
                 /\ cronService' = cronService
                 /\ LiveTasks(name)' = LiveTasks(name)]_vars
\* C21 (witness): the task of a running job failed in a firing, and a later
\* firing has invoked it again.
C21_Witness ==
    /\ cronTasks["j1"].failed
    /\ cronTasks["j1"].runs = 2
    /\ cronTasks["j1"].firing
    /\ HasJob(cronService, "j1")
    /\ cronService.jobs[JobIndex(cronService, "j1")].running
    /\ cronService.jobs[JobIndex(cronService, "j1")].task = "ScheduledTask"

\* What a call that must change nothing leaves alone.
CronUnchanged ==
    /\ cronService' = cronService
    /\ cronInit' = cronInit
    /\ cronTasks' = cronTasks
NamedJob == cronService.jobs[JobIndex(cronService, cronCall'.job.name)]
\* C22: removeJob, stopJob and startJob on a name that has no job raise and
\* change nothing; stopJob on a job that is not running and startJob on a job
\* that is running return and change nothing, so a repeated call leaves the
\* state of the first.
C22_NotFoundAndNoOps ==
    [][/\ \A op \in {"removeJob", "stopJob", "startJob"} :
             (CronCallEnds(op) /\ ~HasJob(cronService, cronCall'.job.name)) =>
                 cronCall'.outcome = "raised" /\ CronUnchanged
       /\ \A op \in {"removeJob", "stopJob", "startJob"} :
             (CronCallEnds(op) /\ HasJob(cronService, cronCall'.job.name)) =>
                 cronCall'.outcome = "returned"
       /\ (CronCallEnds("stopJob") /\ HasJob(cronService, cronCall'.job.name)
              /\ ~NamedJob.running) => CronUnchanged
       /\ (CronCallEnds("startJob") /\ HasJob(cronService, cronCall'.job.name)
              /\ NamedJob.running) => CronUnchanged]_vars
\* C22 (witness): removeJob raised for a name that has no job, next to a job
\* that is running.
C22_Witness ==
    /\ cronCall.op = "removeJob"
    /\ cronCall.outcome = "raised"
    /\ ~HasJob(cronService, cronCall.job.name)
    /\ Len(cronService.jobs) = 1
    /\ cronService.jobs[1].running
\* C22 (witness of the no-ops): startJob returned on a job that has one
\* scheduled task and runs, on a service that is initialized.
C22_WitnessRunning ==
    /\ cronCall.op = "startJob"
    /\ cronCall.outcome = "returned"
    /\ cronService.initialized
    /\ HasJob(cronService, cronCall.job.name)
    /\ cronService.jobs[JobIndex(cronService, cronCall.job.name)].live = 1

\* After the step, no job runs and no job has a scheduled task of its own.
NoJobRuns ==
    \A i \in 1..Len(cronService'.jobs) :
        ~cronService'.jobs[i].running /\ cronService'.jobs[i].task = "null"
\* After the step, no scheduled task of a registered job is left to fire.
NoTimerLeft ==
    \A i \in 1..Len(cronService'.jobs) : cronService'.jobs[i].live = 0
\* stopAll() never raises, and a stopAll() that finds no job with a task
\* changes nothing.
StopAllRepeats ==
    [][CronCallEnds("stopAll") =>
          /\ cronCall'.outcome = "returned"
          /\ NoJobRuns
          /\ (\A i \in 1..Len(cronService.jobs) : cronService.jobs[i].task = "null")
                 => CronUnchanged]_vars
\* C23 (as claimed): after stopAll() no job is running and no timer of a job
\* is left; stopAll() raises nothing and a repeated stopAll() changes nothing.
C23_StopAllAsClaimed ==
    [][CronCallEnds("stopAll") =>
          /\ cronCall'.outcome = "returned"
          /\ NoJobRuns
          /\ NoTimerLeft
          /\ (\A i \in 1..Len(cronService.jobs) : cronService.jobs[i].task = "null")
                 => CronUnchanged]_vars

\* C29 (as claimed): a firing invokes the task only when the job's enable
\* predicate is true at that moment.
C29_PredicateAtEveryTickAsClaimed ==
    [][\A name \in CronNames :
          (cronTasks'[name].runs = cronTasks[name].runs + 1) =>
              cronTasks'[name].predicate = "true"]_vars

\* ---- CronService: runOnInit
\* A job that is enabled whatever the moment, and asks for a run at start-up.
RunsOnInit(config) == config.runOnInit /\ config.enabled \in {"undefined", "true"}
\* init() never raises, whatever the tasks it awaits do, and when it returns
\* the task of every job that is enabled with runOnInit has been executed.
InitRunsOnInit ==
    [][(CronCallEnds("init") /\ ~cronService.initialized) =>
          /\ cronCall'.outcome = "returned"
          /\ cronService'.initialized
          /\ \A i \in 1..Len(cronService'.jobs) :
                 RunsOnInit(cronService'.jobs[i].config) =>
                     cronTasks'[cronService'.jobs[i].config.name].onInit >= 1]_vars
\* A job that is enabled with runOnInit and is added to an initialized
\* service has its task executed by addJob.
AddJobRunsOnInit ==
    [][(/\ CronCallEnds("addJob")
        /\ cronCall'.outcome = "returned"
        /\ cronService.initialized
        /\ RunsOnInit(cronCall'.job)) =>
            cronTasks'[cronCall'.job.name].onInit =
                cronTasks[cronCall'.job.name].onInit + 1]_vars
\* C30 (as claimed): the task of an enabled job with runOnInit is executed at
\* start-up, by init() for a job registered before it and by addJob for a job
\* added afterwards; a failing run stops neither init() nor the other jobs.
C30_RunOnInitAsClaimed == InitRunsOnInit /\ AddJobRunsOnInit

\* ---- DatabaseService.close, WebSocketService.close
\* A step in which close() is called on the service of `kind`.
CloseCalled(kind) == closeCalls'[kind].calls = closeCalls[kind].calls + 1
\* The call made in this step returns at once and does nothing.
CloseIsNoOp(kind) ==
    /\ closeCalls'[kind].driverCloses = closeCalls[kind].driverCloses
    /\ closeCalls'[kind].closing = closeCalls[kind].closing
    /\ closeCalls'[kind].last = "returned"
    /\ services' = services
\* C24 (as claimed): a close() that follows a close() of the same service
\* does not raise and does not invoke the driver's close again; close() on a
\* service that holds no resource is a no-op.
C24_ReleaseTwiceAsClaimed ==
    [][\A kind \in Kinds :
          (/\ CloseCalled(kind)
           /\ closeCalls[kind].closing = 0
           /\ closeCalls[kind].last # "none" \/ ~services[kind].initialized)
              => CloseIsNoOp(kind)]_vars
\* C24: a close() that follows a close() of the same service that returned
\* does not raise and does not invoke the driver's close again; close() on a
\* service that holds no resource is a no-op.
C24_ReleaseTwice ==
    [][\A kind \in Kinds :
          (/\ CloseCalled(kind)
           /\ closeCalls[kind].closing = 0
           /\ closeCalls[kind].last = "returned" \/ ~services[kind].initialized)
              => CloseIsNoOp(kind)]_vars
\* C24 (witness): a service was closed twice, the second call after the first
\* had returned, and its driver's close was invoked once.
C24_Witness ==
    \E kind \in Kinds :
        /\ closeCalls[kind].calls = 2
        /\ closeCalls[kind].driverCloses = 1
        /\ closeCalls[kind].closing = 0
        /\ closeCalls[kind].last = "returned"
        /\ ~services[kind].initialized
\* C24 (witness of the absent resource): close() returned on a service that
\* was never opened.
C24_WitnessAbsent ==
    /\ services["database"] = NoService
    /\ closeCalls["database"].calls = 1
    /\ closeCalls["database"].driverCloses = 0
    /\ closeCalls["database"].last = "returned"

\* ---- Katax: the instance that is not initialized
\* The state of the instance that an accessor could change.
InstanceUnchanged ==
    /\ UNCHANGED <<mapVars, promises, calls, jobs, timers, cacheInstances>>
    /\ UNCHANGED <<hooks, registry, shutdown>>
\* A call of database(), socket() or an accessor that returns or raises in
\* the step in which it is made.
CallEnds == returned = NoReturn /\ returned' # NoReturn /\ returned'.awaited = 0
\* A call of healthCheck() is made in this step.
HealthCheckCalled == health.pc = "idle" /\ health'.pc # "idle"
C25_WitnessAgain ==
    /\ initialized
    /\ returned.config.kind = "config"
    /\ returned.result = Service
    /\ cacheInstances = {"a"}
    /\ ~HasDatabase("a")

\* ---- Katax.init with a registry
\* The step in which the catch block of init() gets a failed registration.
RegistrationFails == lifecycle.caught = "none" /\ lifecycle'.caught # "none"
\* A failed registration is not fatal: init() returns, the instance is
\* initialized and not registered, and no heartbeat timer runs.
RegistrationFailureNotFatal ==
    [][RegistrationFails =>
          /\ lifecycle'.pc = "initReturned"
          /\ initialized'
          /\ ~IsRegistered'
          /\ registryService'.heartbeatTimer = "null"]_vars
\* C26 (as claimed): a failed registration is not fatal to init(), and the
\* onError hook, when there is one, is invoked with 'registry.register'.
C26_RegistrationFailureAsClaimed ==
    [][RegistrationFails =>
          /\ lifecycle'.pc = "initReturned"
          /\ initialized'
          /\ ~IsRegistered'
          /\ registryService'.heartbeatTimer = "null"
          /\ lifecycle.config.hooks =>
                 lifecycle'.onError = Append(lifecycle.onError, "registry.register")]_vars

\* ---- Katax with a registry of handler callbacks
\* The callbacks of the handler that the last init() was given.
Callbacks ==
    IF lifecycle.config.registry = <<>> THEN {}
    ELSE lifecycle.config.registry[1].callbacks
InitReturns == lifecycle.pc # "initReturned" /\ lifecycle'.pc = "initReturned"
ShutdownReturns == lifecycle.pc # "shutdownReturned" /\ lifecycle'.pc = "shutdownReturned"
\* An action that has a callback is never sent over HTTP, and a callback is
\* invoked by the first step of a call only, never again by a retry.
CallbackInsteadOfHttp ==
    /\ [](\A action \in Callbacks \ {"heartbeat"} :
              /\ registryCalls[action].pc \notin {"fetch", "sleep"}
              /\ registryCalls[action].outcomes = <<>>)
    /\ [][\A action \in Callbacks :
              (registryCalls[action].pc # "handler" /\ registryCalls'[action].pc = "handler")
                  => registryCalls[action].pc = "idle"]_vars
\* init() has invoked the register callback once when it returns.
InitRegistersOnce ==
    [][(InitReturns /\ "register" \in Callbacks) => lifecycle'.invoked["register"] = 1]_vars
\* C27 (as claimed): with handler callbacks, init() invokes the register
\* callback exactly once and the shutdown() that follows invokes the
\* unregister callback exactly once, without retry and without HTTP request.
C27_HandlerCallbacksAsClaimed ==
    /\ CallbackInsteadOfHttp
    /\ InitRegistersOnce
    /\ [][(ShutdownReturns /\ "unregister" \in Callbacks) =>
              lifecycle'.invoked["unregister"] = 1]_vars
\* C27: with handler callbacks, init() invokes the register callback exactly
\* once, and the shutdown() that follows invokes the unregister callback
\* exactly once when the registration had succeeded and not at all when it
\* had failed; no callback is retried and no HTTP request is made for an
\* action that has a callback.
C27_HandlerCallbacks ==
    /\ CallbackInsteadOfHttp
    /\ InitRegistersOnce
    /\ [][(ShutdownReturns /\ "unregister" \in Callbacks) =>
              lifecycle'.invoked["unregister"] =
                  IF lifecycle.caught = "none" THEN 1 ELSE 0]_vars
\* C27 (witness): shutdown() returned after init() with a handler of all
\* callbacks; register and unregister were invoked once each.
C27_Witness ==
    /\ lifecycle.pc = "shutdownReturned"
    /\ Callbacks = RegistryActions
    /\ lifecycle.invoked["register"] = 1
    /\ lifecycle.invoked["unregister"] = 1
    /\ ~initialized
    /\ ~registryService.registered
\* C27 (witness of the failed registration): shutdown() returned after an
\* init() whose register callback had rejected; unregister was not invoked.
C27_WitnessRejected ==
    /\ lifecycle.pc = "shutdownReturned"
    /\ "unregister" \in Callbacks
    /\ lifecycle.caught = "register"
    /\ lifecycle.invoked["register"] = 1
    /\ lifecycle.invoked["unregister"] = 0

\* ---- RegistryService: backoff
\* The sleeps of the register() call follow its failed attempts: one after
\* every failed attempt but the n-th, each of base * 2^(i-1) + j with
\* 0 <= j < 100 after attempt i; a call that fails has slept n - 1 times.
BackoffOf(n, base) ==
    LET call == registryCalls["register"]
    IN
    /\ \A i \in 1..Len(call.delays) :
           /\ i < n
           /\ call.delays[i] - base * 2 ^ (i - 1) \in 0..99
    /\ call.pc = "fetch" => Len(call.delays) = call.attempt - 1
    /\ call.pc = "sleep" => Len(call.delays) = call.attempt /\ call.attempt < n
    /\ call.pc = "raised" => Len(call.delays) = n - 1
    /\ call.pc = "returned" => Len(call.delays) = Len(call.outcomes) - 1
\* C28 (as claimed): the backoff with n = retryAttempts + 1 and the base
\* delay retryBaseDelayMs.
C28_BackoffAsClaimed ==
    registryService.constructed =>
        BackoffOf(AttemptsUnclamped(registryService.config),
                  RetryBaseDelayMsOf(registryService.config))
\* C28: the backoff with n = max(0, retryAttempts) + 1 attempts and the base
\* delay max(0, retryBaseDelayMs), retryAttempts being 2 and retryBaseDelayMs
\* 300 when the config leaves them out.
C28_Backoff ==
    registryService.constructed =>
        BackoffOf(Attempts(registryService.config), BaseDelay(registryService.config))
\* C28 (witness): with retryAttempts = 3 and retryBaseDelayMs = 10, register()
\* raised after four failed attempts and sleeps of 10, 20 + 99 and 40 ms.
C28_Witness ==
    /\ registryService.config.retryAttempts = <<3>>
    /\ registryCalls["register"].pc = "raised"
    /\ Len(registryCalls["register"].outcomes) = 4
    /\ registryCalls["register"].delays = <<10, 119, 40>>

\* What an unregister() that returns in this step has sent: the invocation
\* of the handler's callback, or the fetches of its fetchWithRetry.
UnregisterSent ==
    IF UnregisterCall.pc = "handler" THEN 1 ELSE Len(UnregisterCall'.outcomes)
\* An unregister() called on a client that is not registered ends in the step
\* of the call, and has sent nothing.
UnregisterSkips ==
    UnregisterStarts /\ ~registryService.registered =>
        /\ UnregisterCall'.pc = "returned"
        /\ UnregisterCall'.outcomes = <<>> /\ UnregisterCall'.result = <<>>
\* C31 (as claimed): unregister() on a registered client sends exactly one
\* unregister call to the collector, and on a client that is not registered
\* it sends none.
C31_OneUnregisterCallAsClaimed ==
    [][/\ UnregisterSkips
       /\ UnregisterReturns /\ (UnregisterCall.pc # "idle" \/ registryService.registered)
            => UnregisterSent = 1]_vars
\* C31 (amended): unregister() on a registered client makes one unregister
\* action: one invocation of the handler's callback, or over HTTP one request
\* and a further one after each failure up to the retry count, or nothing
\* when the action has neither callback nor url; on a client that is not
\* registered it sends none.
C31_OneUnregisterCall ==
    [][/\ UnregisterSkips
       /\ UnregisterStarts /\ registryService.registered =>
            IF "unregister" \in registryService.config.callbacks
            THEN UnregisterCall'.pc = "handler"
            ELSE IF ~registryService.config.url
            THEN UnregisterCall'.pc = "returned" /\ UnregisterSent = 0
            ELSE UnregisterCall'.pc = "fetch" /\ UnregisterCall'.attempt = 1
       /\ UnregisterReturns /\ UnregisterCall.pc = "handler" => UnregisterSent = 1
       /\ UnregisterReturns /\ UnregisterCall.pc = "fetch" =>
            /\ UnregisterSent \in 1..Attempts(registryService.config)
            /\ \A i \in 1..(UnregisterSent - 1) : ~Ok(UnregisterCall'.outcomes[i])
            /\ \/ UnregisterSent = Attempts(registryService.config)
               \/ Ok(UnregisterCall'.outcomes[UnregisterSent])]_vars
\* An unregister() on a registered client that has returned after a retry.
C31_Witness ==
    /\ UnregisterCall.pc = "returned"
    /\ Len(UnregisterCall.outcomes) = 2
    /\ ~registryService.registered
\* An unregister() on a client over HTTP that was not registered has returned.
C31_WitnessNotRegistered ==
    /\ UnregisterCall.pc = "returned"
    /\ registryService.config.url /\ registryService.config.callbacks = {}
    /\ UnregisterCall.outcomes = <<>> /\ UnregisterCall.result = <<>>

\* A step of the presence heartbeat in which a SET settles.
SetSettled == presence'.awaited < presence.awaited
\* C32: startHeartbeat writes the presence key once at once and once at each
\* tick of its interval; a SET that fails and an emit that throws raise
\* nothing and leave the interval running; once stop() has returned no SET
\* is started any more, and stop() can be called again.
C32_PresenceHeartbeat ==
    [][/\ ~presence.started /\ presence'.started =>
            presence'.writes = 1 /\ presence'.timer = "Timeout"
       /\ presence.started /\ presence'.writes # presence.writes =>
            /\ presence.timer = "Timeout"
            /\ presence'.writes = presence.writes + 1
       /\ SetSettled =>
            /\ presence'.timer = presence.timer
            /\ presence'.stopped = presence.stopped
            /\ presence'.raised = "none"
       /\ presence.stopped =>
            /\ presence'.writes = presence.writes
            /\ presence'.stopped /\ presence'.timer = "null"
            /\ presence'.raised = "none"]_vars
\* A SET has failed while the interval runs, the next tick has written
\* again, and stop() has been called twice.
C32_Witness ==
    /\ presence.stops = 2
    /\ presence.writes = 3
    /\ presence.awaited = 1
    /\ presence.emits = 0 /\ presence.socket

\* A shutdown() called on an instance that is not initialized returns in the
\* step of the call: it closes nothing and runs no hook.
SignalOnUninitialized ==
    [][\A c \in SignalCallers :
          (~initialized /\ signals.calls[c].pc = "idle" /\ signals'.calls[c].pc # "idle") =>
              /\ signals'.calls[c].pc = "returned"
              /\ signals'.driverCloses = signals.driverCloses
              /\ signals'.ran = signals.ran
              /\ <<databases, sockets>>' = <<databases, sockets>>]_vars
\* The driver's close of each resource has been called at most once, and each
\* hook has run at most once.
ClosedAndRanOnce ==
    /\ \A r \in DOMAIN signals.driverCloses : signals.driverCloses[r] <= 1
    /\ signals.ran.beforeShutdown <= 1
    /\ signals.ran.afterShutdown <= 1
\* C33 (as claimed): over any number of shutdown() calls, one after the other
\* or overlapping, the driver's close of each registered resource is called
\* at most once and each shutdown hook runs at most once; a shutdown() on an
\* instance that is not initialized closes nothing and runs no hook.
C33_ShutdownOnceAsClaimed == []ClosedAndRanOnce /\ SignalOnUninitialized
\* Two calls of shutdown() have called the driver's close of one database.
C33_Overlapped == signals.driverCloses[<<"database", "a">>] = 2

\* When shutdown() has returned, no registered resource is open.
NoneOpenAndRegistered ==
    shutdown.pc = "returned" =>
        \A n \in Names :
            /\ HasDatabase(n) => ~promises[databases[n]].open
            /\ HasSocket(n) => ~promises[sockets[n]].open
\* A step of shutdown() that removes a resource from its map removes one whose
\* close this shutdown() has called.
RemovedWereClosed ==
    [][shutdown'.pc # "idle" =>
          \A n \in Names :
              /\ (HasDatabase(n) /\ ~HasDatabase(n)') =>
                     <<"database", n>> \in shutdown.attempted
              /\ (HasSocket(n) /\ ~HasSocket(n)') =>
                     <<"socket", n>> \in shutdown.attempted]_vars
\* C34 (as claimed): a resource whose construction was started before or
\* during shutdown() and ends after shutdown() took its snapshot is not left
\* open and registered when shutdown() has finished, and every handle that
\* shutdown() removes from a resolved map has had its close attempted.
C34_AcquisitionRacingShutdownAsClaimed == []NoneOpenAndRegistered /\ RemovedWereClosed
\* shutdown() has returned and has left a database open and registered.
C34_LeftOpen ==
    /\ shutdown.pc = "returned"
    /\ HasDatabase("a") /\ promises[databases["a"]].open

\* ---- Katax.cache after shutdown() and init()
\* What cache(name) gives on an initialized instance when it looks at the
\* database registered under the name now.
CacheOfRegistered(name) ==
    IF ~HasDatabase(name) THEN Raised(RedisNotFound(name))
    ELSE IF promises[databases[name]].type # "redis"
         THEN Raised(NotRedis(name, promises[databases[name]].type))
    ELSE Service
\* C35 (as claimed): cache(name) on an initialized instance returns a
\* CacheService when a Redis database is registered under the name now, and
\* raises when none is, also after shutdown() and a new init().
C35_CacheOfRegisteredAsClaimed ==
    (returned.config.kind = "cache" /\ returned.path = "accessor") =>
        returned.result = CacheOfRegistered(returned.config.name)
\* cache('a') has returned a CacheService while no database 'a' is registered.
C35_Stale ==
    /\ initialized
    /\ returned.config.kind = "cache" /\ returned.config.name = "a"
    /\ returned.result = Service
    /\ ~HasDatabase("a")

\* ---- RegistryService: the heartbeat timers
\* C36: a RegistryService has at most one interval timer that was set and not
\* cleared, and it has one exactly when heartbeatTimer holds a handle, after
\* any register(), unregister() and tick, also a register() on a client that
\* is registered already.
C36_OneHeartbeatTimer ==
    /\ registryService.live <= 1
    /\ registryService.live = 1 <=> registryService.heartbeatTimer = "Timeout"
\* A register() is in flight on a client that is registered and whose
\* heartbeat runs: a heartbeat is waiting in its backoff.
C36_Witness ==
    /\ registryService.registered /\ registryService.live = 1
    /\ RegisterCall.pc \in {"fetch", "handler"}
    /\ HeartbeatCall.pc = "sleep"

\* C37 (as claimed): in every state of a RegistryService a heartbeat timer
\* that is active implies registered = true, also when a register() and an
\* unregister() overlap.
C37_TimerImpliesRegisteredAsClaimed ==
    registryService.heartbeatTimer = "Timeout" => registryService.registered
\* unregister() has returned and the timer that a register() set meanwhile
\* runs on a client that is not registered.
C37_TimerWithoutRegistration ==
    /\ UnregisterCall.pc = "returned"
    /\ registryService.heartbeatTimer = "Timeout"
    /\ ~registryService.registered

\* A step in which a heartbeat is sent: the first request of a tick, the
\* request after a backoff sleep, or the call of the handler's callback.
HeartbeatSent ==
    /\ HeartbeatCall.pc \in {"idle", "sleep"}
    /\ HeartbeatCall'.pc \in {"fetch", "handler"}
\* C38 (as claimed): once unregister() has completed, and until the client
\* is registered again, no heartbeat is sent any more, also not by a
\* heartbeat that was in flight or in its backoff sleep when unregister() was
\* called.
C38_NoHeartbeatAfterUnregisterAsClaimed ==
    [][(UnregisterCall.pc = "returned" /\ ~registryService.registered)
           => ~HeartbeatSent]_vars
\* The same with no timer: what is sent then comes from a heartbeat that
\* was in flight.
NoRetryAfterUnregister ==
    [][(/\ UnregisterCall.pc = "returned" /\ ~registryService.registered
        /\ registryService.heartbeatTimer = "null") => ~HeartbeatSent]_vars
\* unregister() has returned on a client without a timer while a heartbeat
\* waits in its backoff sleep for its next request.
C38_HeartbeatInBackoff ==
    /\ UnregisterCall.pc = "returned"
    /\ registryService.heartbeatTimer = "null" /\ ~registryService.registered
    /\ RegisterCall.pc = "idle"
    /\ HeartbeatCall.pc = "sleep"

\* ---- CronService: the timers of a job
\* running is true exactly when the job holds a task handle.
RunningIffTask ==
    \A i \in 1..Len(cronService.jobs) :
        cronService.jobs[i].running <=> cronService.jobs[i].task = "ScheduledTask"
\* C39 (as claimed): in every state of the CronService each job has at most
\* one live scheduled task, and running is true exactly when the job holds a
\* task handle, after any init, addJob, startJob, stopJob, removeJob and
\* stopAll, also a startJob before init().
C39_OneTimerPerJobAsClaimed ==
    /\ \A i \in 1..Len(cronService.jobs) : cronService.jobs[i].live <= 1
    /\ RunningIffTask
\* A job holds one task handle and has two live scheduled tasks.
C39_TwoTimers ==
    \E i \in 1..Len(cronService.jobs) :
        /\ cronService.jobs[i].live = 2
        /\ cronService.jobs[i].running
        /\ cronService.initialized

\* ---- Katax.init: overlapping calls
\* C40 (as claimed): overlapping init() calls on one instance construct the
\* config, logger and cron services once and register with the registry at
\* most once, and every call gets the instance with the same services.
C40_InitOnceAsClaimed ==
    /\ inits.constructed <= 1
    /\ inits.registers <= 1
    /\ \A c \in SignalCallers :
           inits.calls[c].pc = "returned" => inits.calls[c].seen = 1
\* Two overlapping init() calls have both returned, each after it made its
\* own services and its own registration.
C40_TwiceConstructed ==
    /\ inits.constructed = 2 /\ inits.registers = 2
    /\ \A c \in SignalCallers : inits.calls[c].pc = "returned"
\* A call of init() on an initialized instance returns in the step of the
\* call and constructs and registers nothing.
InitOnInitialized ==
    [][\A c \in SignalCallers :
          (initialized /\ inits.calls[c].pc = "idle" /\ inits'.calls[c].pc # "idle") =>
              /\ inits'.calls[c].pc = "returned"
              /\ inits'.constructed = inits.constructed
              /\ inits'.registers = inits.registers
              /\ inits'.services = inits.services]_vars

====
